---- MODULE Spec2Model ----
(***************************************************************************)
(* A model of carmac_tools.file_tools: the filename validity filter, the   *)
(* normalizer, the scorer and the best-match loop of string_matching.      *)
(*                                                                         *)
(* A Python str is a sequence of one-character strings: "ab.x" is          *)
(* <<"a","b",".","x">> and "" is <<>>.  A score is an exact rational       *)
(* <<numerator, denominator>> in lowest terms (the code computes a float   *)
(* of the same value; an int for thefuzz).  rapidfuzz and thefuzz are      *)
(* modelled after rapidfuzz >= 3.8 (setup.py), pathlib after Python 3.11.  *)
(***************************************************************************)
EXTENDS Integers, Sequences, FiniteSets, TLC

VARIABLES
    \* string_matching: parameters
    base_list, target_list, library, match_method, similarity_threshold,
    normalization_pattern, filename_mode,
    \* string_matching: locals
    pc, i, j, normalized_name, best_match, highest_score,
    matched_results, unmatched_names,
    \* observations: the pairs get_score returned a score for, the debug
    \* records handed to the module's logger
    scored, log,
    normalized_target,
    \* is_valid_filename called on its own: arguments and result (None
    \* before the call returns, <<TRUE>> or <<FALSE>> after)
    vf_filename, vf_os_type, vf_result,
    \* remove_extension called on its own: argument and result (None or <<stem>>)
    re_filename, re_result,
    \* normalize_string called on its own: arguments, result (None or
    \* <<string>>) and the result of a second call on that result
    ns_s, ns_filter_pattern, ns_result, ns_again,
    \* get_score called on its own: arguments and outcome (None before the
    \* call is over, then <<"raised", "ValueError">> or <<"returned", value>>,
    \* value being None when the call returns without a value)
    gs_library, gs_match_method, gs_normalized_name, gs_normalized_target,
    gs_result,
    \* match_names_to_filenames: the lines of the two files, whether both
    \* files exist, the sort flag and the outcome (None before the call is
    \* over, then <<"raised", error>> or
    \* <<"returned", <<matched_results, unmatched_results>>>>)
    mn_name_lines, mn_filename_lines, mn_files_exist, mn_sort, mn_result,
    \* match_names_to_filenames: what the file system allows: whether the two
    \* input files can be read as UTF-8 text, and which of the three output
    \* files is the first that cannot be opened for writing (0 when all can)
    mn_io,
    \* match_names_to_filenames: the verbose and output_to_file flags, the
    \* "Matched" and "Unmatched" debug records handed to the logger, and the
    \* three files written (None when they are not)
    mn_verbose, mn_output_to_file, mn_log, mn_files,
    \* RateLimiter: the fields of the object, the clock time.time() reads,
    \* the position of the running wait_for_request_slot call ("idle" when
    \* none runs, "waiting" at the test of the while loop, "sleeping" inside
    \* time.sleep), its local current_time, and the time before which the
    \* running time.sleep does not return
    rl_max_requests, rl_interval_seconds, rl_timestamps, rl_time, rl_pc,
    rl_current_time, rl_wake,
    \* observations: every timestamp a call has recorded, oldest first, and
    \* the running (or last) call: the queue and the time it found on entry,
    \* how many timestamps had been recorded then, whether it has slept
    rl_granted, rl_call,
    \* calculate_checksum: the file at file_path, the checksum_type and the
    \* outcome (None before the call is over, then <<"raised", error>> or
    \* <<"returned", value>>)
    cc_file, cc_checksum_type, cc_result,
    \* string_matching with its outer loop run by one worker per base name:
    \* for each base name the position and the locals of the pass of the
    \* loop body that processes it (<<>> when no such call runs)
    workers

matchVars == <<base_list, target_list, library, match_method, similarity_threshold,
               normalization_pattern, filename_mode, pc, i, j, normalized_name,
               best_match, highest_score, matched_results, unmatched_names,
               scored, log, normalized_target>>
validVars == <<vf_filename, vf_os_type, vf_result>>
stemVars == <<re_filename, re_result>>
normVars == <<ns_s, ns_filter_pattern, ns_result, ns_again>>
scoreVars == <<gs_library, gs_match_method, gs_normalized_name,
               gs_normalized_target, gs_result>>
namesVars == <<mn_name_lines, mn_filename_lines, mn_files_exist, mn_io, mn_sort, mn_result,
               mn_verbose, mn_output_to_file, mn_log, mn_files>>
limiterVars == <<rl_max_requests, rl_interval_seconds, rl_timestamps, rl_time, rl_pc,
                 rl_current_time, rl_wake, rl_granted, rl_call>>
checksumVars == <<cc_file, cc_checksum_type, cc_result>>
workerVars == <<workers>>
vars == <<matchVars, workerVars, validVars, stemVars, normVars, scoreVars, namesVars,
          limiterVars, checksumVars>>

----------------------------------------------------------------------------
(* Bounds of the model *)

\* longest base_list
MaxBase == 2
\* longest target_list
MaxTargets == 2
\* longest filename handed to is_valid_filename on its own
MaxNameLen == 2
\* longest string handed to remove_extension, normalize_string and get_score
\* on their own
MaxStrLen == 4

Max(a, b) == IF a >= b THEN a ELSE b
Min(a, b) == IF a <= b THEN a ELSE b

SeqsUpTo(S, n) == UNION { [1..k -> S] : k \in 0..n }

----------------------------------------------------------------------------
(* Characters *)

\* the NUL character '\x00' and the character '`', which a string of the
\* model cannot hold
NUL == "NUL"
BACKTICK == "BACKTICK"

\* chr(1) .. chr(255), the characters of the model (str holds any code
\* point; the model stops at 255)
Latin1 ==
    <<"", "", "", "", "", "", "", "",
      "\t", "\n", "", "\f", "\r", "", "", "",
      "", "", "", "", "", "", "", "",
      "", "", "", "", "", "", "", " ",
      "!", "\"", "#", "$", "%", "&", "'", "(",
      ")", "*", "+", ",", "-", ".", "/", "0",
      "1", "2", "3", "4", "5", "6", "7", "8",
      "9", ":", ";", "<", "=", ">", "?", "@",
      "A", "B", "C", "D", "E", "F", "G", "H",
      "I", "J", "K", "L", "M", "N", "O", "P",
      "Q", "R", "S", "T", "U", "V", "W", "X",
      "Y", "Z", "[", "\\", "]", "^", "_", BACKTICK,
      "a", "b", "c", "d", "e", "f", "g", "h",
      "i", "j", "k", "l", "m", "n", "o", "p",
      "q", "r", "s", "t", "u", "v", "w", "x",
      "y", "z", "{", "|", "}", "~", "", "",
      "", "", "", "", "", "", "", "",
      "", "", "", "", "", "", "", "",
      "", "", "", "", "", "", "", "",
      "", "", "", "", "", "", "", " ",
      "¡", "¢", "£", "¤", "¥", "¦", "§", "¨",
      "©", "ª", "«", "¬", "­", "®", "¯", "°",
      "±", "²", "³", "´", "µ", "¶", "·", "¸",
      "¹", "º", "»", "¼", "½", "¾", "¿", "À",
      "Á", "Â", "Ã", "Ä", "Å", "Æ", "Ç", "È",
      "É", "Ê", "Ë", "Ì", "Í", "Î", "Ï", "Ð",
      "Ñ", "Ò", "Ó", "Ô", "Õ", "Ö", "×", "Ø",
      "Ù", "Ú", "Û", "Ü", "Ý", "Þ", "ß", "à",
      "á", "â", "ã", "ä", "å", "æ", "ç", "è",
      "é", "ê", "ë", "ì", "í", "î", "ï", "ð",
      "ñ", "ò", "ó", "ô", "õ", "ö", "÷", "ø",
      "ù", "ú", "û", "ü", "ý", "þ", "ÿ">>

\* chr(k) for 0 <= k <= 255
chr(k) == IF k = 0 THEN NUL ELSE Latin1[k]
CodePoints == {chr(k) : k \in 0..255}

\* ord(c)
OrdTable ==
    [c \in CodePoints |->
        IF c = NUL THEN 0 ELSE CHOOSE k \in 1..255 : Latin1[k] = c] @@ <<>>
ord(c) == OrdTable[c]

\* the characters occurring in s
Chars(s) == {s[k] : k \in 1..Len(s)}

\* str.lower() on one character: A-Z and the capitals of Latin-1 (all but
\* the multiplication sign at 215) have their lowercase 32 code points on;
\* below 256 no other character changes
LowerTable ==
    [c \in CodePoints |->
        IF ord(c) \in (65..90) \cup (192..214) \cup (216..222)
        THEN chr(ord(c) + 32) ELSE c] @@ <<>>
LowerChar(c) == LowerTable[c]

\* str.lower()
lower(s) == [k \in 1..Len(s) |-> LowerChar(s[k])]

\* s[a:b] with 0 <= a <= b <= len(s) (Python slice, 0-based, b excluded)
Slice(s, a, b) == [k \in 1..(b - a) |-> s[a + k]]

\* s.rfind(c): the 0-based index of the last c, or -1
rfind(s, c) ==
    IF \E k \in 1..Len(s) : s[k] = c
    THEN (CHOOSE k \in 1..Len(s) : s[k] = c /\ \A m \in (k+1)..Len(s) : s[m] # c) - 1
    ELSE -1

----------------------------------------------------------------------------
(* is_valid_filename *)

\* the character class of the regular expression [\\/*?:"<>|]
WindowsIllegal == {"\\", "/", "*", "?", ":", "\"", "<", ">", "|"}

\* is_valid_filename with the class written [/*?:"<>|]: the backslash is lost
is_valid_filename_no_backslash(filename, os_type) ==
    IF os_type = "windows" /\ Chars(filename) \cap (WindowsIllegal \ {"\\"}) # {}
    THEN FALSE
    ELSE IF os_type = "unix" /\ (("/" \in Chars(filename)) \/ (NUL \in Chars(filename)))
    THEN FALSE
    ELSE TRUE

is_valid_filename(filename, os_type) ==
    IF os_type = "windows" /\ Chars(filename) \cap WindowsIllegal # {}
    THEN FALSE
    ELSE IF os_type = "unix" /\ (("/" \in Chars(filename)) \/ (NUL \in Chars(filename)))
    THEN FALSE
    ELSE TRUE

----------------------------------------------------------------------------
(* remove_extension: Path(filename).stem, on a POSIX host *)

\* the path's components: split on "/", empty and "." components dropped
RECURSIVE PathParts(_, _, _)
PathParts(s, k, cur) ==
    LET keep(c) == IF c = <<>> \/ c = <<".">> THEN <<>> ELSE <<c>>
    IN  IF k > Len(s) THEN keep(cur)
        ELSE IF s[k] = "/" THEN keep(cur) \o PathParts(s, k + 1, <<>>)
        ELSE PathParts(s, k + 1, Append(cur, s[k]))

\* PurePath.name: the last component, "" when there is none
PathName(filename) ==
    LET parts == PathParts(filename, 1, <<>>)
    IN  IF parts = <<>> THEN <<>> ELSE parts[Len(parts)]

\* PurePath.stem (Python 3.11): name[:i] for i = name.rfind('.') when
\* 0 < i < len(name) - 1, the name itself otherwise
PathStem(filename) ==
    LET name == PathName(filename)
        dot  == rfind(name, ".")
    IN  IF 0 < dot /\ dot < Len(name) - 1 THEN Slice(name, 0, dot) ELSE name

\* remove_extension as filename.split('.')[0]: the cut is at the first dot
remove_extension_first_dot(filename) ==
    IF \E k \in 1..Len(filename) : filename[k] = "."
    THEN SubSeq(filename, 1,
                (CHOOSE k \in 1..Len(filename) :
                    filename[k] = "." /\ \A m \in 1..(k - 1) : filename[m] # ".") - 1)
    ELSE filename

remove_extension(filename) == PathStem(filename)

----------------------------------------------------------------------------
(* normalize_string *)

\* filter_pattern is a regular expression, a sequence of characters.  The
\* model covers two kinds: a character class [...] or [^...] of characters
\* and ranges, followed by +, * or nothing, and a plain word without special
\* characters.  Its own patterns: the default, the one of the comment of
\* l.189, and the word ab
DefaultPattern == <<"[", "^", "a", "-", "z", "0", "-", "9", "]", "+">>
DottedPattern == <<"[", "^", "a", "-", "z", "0", "-", "9", ".", ",", "]", "+">>
LiteralPattern == <<"a", "b">>
ClassPatterns == {DefaultPattern, DottedPattern}

\* the characters with a special meaning in a regular expression
MetaChars == {".", "^", "$", "*", "+", "?", "{", "}", "[", "]", "\\", "|", "(", ")"}

\* the pattern without its repetition sign
PatternCore(filter_pattern) ==
    IF filter_pattern # <<>> /\ filter_pattern[Len(filter_pattern)] \in {"+", "*"}
    THEN SubSeq(filter_pattern, 1, Len(filter_pattern) - 1)
    ELSE filter_pattern
IsNegated(filter_pattern) == Len(filter_pattern) >= 2 /\ filter_pattern[2] = "^"
\* what stands between [ or [^ and ]
ClassBody(filter_pattern) ==
    LET core == PatternCore(filter_pattern)
    IN  SubSeq(core, IF IsNegated(filter_pattern) THEN 3 ELSE 2, Len(core) - 1)

\* the characters of a class body from position k on: x-y is a range
RECURSIVE ClassSet(_, _)
ClassSet(body, k) ==
    IF k > Len(body) THEN {}
    ELSE IF k + 2 <= Len(body) /\ body[k + 1] = "-"
    THEN {chr(n) : n \in ord(body[k])..ord(body[k + 2])} \cup ClassSet(body, k + 3)
    ELSE {body[k]} \cup ClassSet(body, k + 1)
RECURSIVE RangesInOrder(_, _)
RangesInOrder(body, k) ==
    IF k > Len(body) THEN TRUE
    ELSE IF k + 2 <= Len(body) /\ body[k + 1] = "-"
    THEN ord(body[k]) <= ord(body[k + 2]) /\ RangesInOrder(body, k + 3)
    ELSE RangesInOrder(body, k + 1)

IsClassSyntax(filter_pattern) ==
    LET core == PatternCore(filter_pattern)
        body == ClassBody(filter_pattern)
    IN  /\ Len(core) >= 3
        /\ core[1] = "[" /\ core[Len(core)] = "]"
        /\ body # <<>>
        /\ \A k \in 1..Len(body) : body[k] \notin {"[", "]", "\\", "^"}
        /\ RangesInOrder(body, 1)
\* the class patterns of the model are known to be class patterns
IsClassPattern(filter_pattern) ==
    filter_pattern \in ClassPatterns \/ IsClassSyntax(filter_pattern)
IsLiteralPattern(filter_pattern) ==
    \A k \in 1..Len(filter_pattern) : filter_pattern[k] \notin MetaChars

\* the characters a class pattern does not match, hence keeps
ParseKeeps(filter_pattern) ==
    LET class == ClassSet(ClassBody(filter_pattern), 1)
    IN  IF IsNegated(filter_pattern) THEN class ELSE CodePoints \ class
\* the same, worked out once for the class patterns of the model
KeepsTable == [p \in ClassPatterns |-> ParseKeeps(p)] @@ <<>>
PatternKeeps(filter_pattern) ==
    IF filter_pattern \in ClassPatterns THEN KeepsTable[filter_pattern]
    ELSE ParseKeeps(filter_pattern)

\* re.sub(pattern, '', string) for a pattern [^...]+ : every maximal run of
\* characters outside the class is replaced by nothing
re_sub_class(filter_pattern, string) ==
    LET keeps == PatternKeeps(filter_pattern)
    IN  SelectSeq(string, LAMBDA c : c \in keeps)

\* re.sub(pattern, '', string, count=1) for a pattern [^...]+ : only the
\* first maximal run of characters outside the class is replaced
re_sub_class_first(filter_pattern, string) ==
    LET keeps == PatternKeeps(filter_pattern)
        outside(k) == string[k] \notin keeps
        bad == {k \in 1..Len(string) : outside(k)}
    IN  IF bad = {} THEN string
        ELSE LET from == CHOOSE k \in bad : \A m \in bad : k <= m
                 to   == CHOOSE k \in from..Len(string) :
                            /\ \A m \in from..k : outside(m)
                            /\ k = Len(string) \/ ~outside(k + 1)
             IN  SubSeq(string, 1, from - 1) \o SubSeq(string, to + 1, Len(string))

\* re.sub(pattern, '', string) for a pattern that is a plain word: its
\* occurrences are replaced by nothing, leftmost first, never overlapping
RECURSIVE re_sub_literal(_, _, _)
re_sub_literal(word, string, k) ==
    IF word = <<>> THEN string
    ELSE IF k > Len(string) THEN <<>>
    ELSE IF k + Len(word) - 1 <= Len(string)
            /\ SubSeq(string, k, k + Len(word) - 1) = word
    THEN re_sub_literal(word, string, k + Len(word))
    ELSE <<string[k]>> \o re_sub_literal(word, string, k + 1)

\* re.sub(pattern=filter_pattern, repl='', string=string), for the two
\* kinds of pattern of the model (no value for any other)
re_sub(filter_pattern, string) ==
    CASE IsClassPattern(filter_pattern) -> re_sub_class(filter_pattern, string)
      [] IsLiteralPattern(filter_pattern) -> re_sub_literal(filter_pattern, string, 1)

\* normalize_string without s.lower()
normalize_string_no_lower(s, filter_pattern) == re_sub(filter_pattern, s)

\* normalize_string with re.sub(..., count=1)
normalize_string_count_1(s, filter_pattern) ==
    IF IsClassPattern(filter_pattern)
    THEN re_sub_class_first(filter_pattern, lower(s))
    ELSE re_sub(filter_pattern, lower(s))

normalize_string(s, filter_pattern) == re_sub(filter_pattern, lower(s))

----------------------------------------------------------------------------
(* Scores: exact rationals <<numerator, denominator>>, lowest terms.  A
   score that the code holds as a double which is not that rational has a
   third component: -1 when the double lies below the rational, 1 when it
   lies above (the nearest double, so nothing lies between the two). *)

RECURSIVE Gcd(_, _)
Gcd(a, b) == IF b = 0 THEN a ELSE Gcd(b, a % b)

\* n / d for n >= 0, d > 0
Rat(n, d) == LET g == Gcd(n, d) IN <<n \div g, d \div g>>

\* on which side of its rational the score lies
Side(x) == IF Len(x) = 3 THEN x[3] ELSE 0
RatGT(x, y) ==
    \/ x[1] * y[2] > y[1] * x[2]
    \/ x[1] * y[2] = y[1] * x[2] /\ Side(x) > Side(y)
RatGE(x, y) ==
    \/ x[1] * y[2] > y[1] * x[2]
    \/ x[1] * y[2] = y[1] * x[2] /\ Side(x) >= Side(y)

\* int(round(x)): Python rounds a half to the even neighbour
RoundHalfEven(x) ==
    LET q == x[1] \div x[2]
        r == x[1] % x[2]
    IN  IF 2 * r < x[2] THEN q
        ELSE IF 2 * r > x[2] THEN q + 1
        ELSE IF q % 2 = 0 THEN q ELSE q + 1

\* One row of the longest-common-subsequence table: prev and acc hold the
\* columns 0..len(b) at the indexes 1..len(b)+1
RECURSIVE LcsRow(_, _, _, _, _)
LcsRow(prev, c, b, col, acc) ==
    IF col > Len(b) THEN acc
    ELSE LET v == IF b[col] = c THEN prev[col] + 1
                  ELSE Max(prev[col + 1], acc[col])
             next == Append(acc, v)
         \* (the test of Len has the column computed before the next one)
         IN  IF Len(next) = col + 1 THEN LcsRow(prev, c, b, col + 1, next) ELSE next

RECURSIVE LcsRows(_, _, _, _)
LcsRows(a, b, row, prev) ==
    IF row > Len(a) THEN prev[Len(b) + 1]
    ELSE LET next == LcsRow(prev, a[row], b, 1, <<0>>)
         \* (the test of Len has the row computed before the next one)
         IN  IF Len(next) = Len(b) + 1 THEN LcsRows(a, b, row + 1, next) ELSE 0

\* the length of a longest common subsequence of a and b
Lcs(a, b) == LcsRows(a, b, 1, [k \in 1..(Len(b) + 1) |-> 0])

\* rapidfuzz.fuzz.ratio: the normalized Indel similarity, 0..100.
\* distance = len(s1) + len(s2) - 2 * lcs; two empty strings are equal (100)
fuzz_ratio(s1, s2) ==
    LET maximum == Len(s1) + Len(s2)
        dist    == maximum - 2 * Lcs(s1, s2)
    IN  IF maximum = 0 THEN Rat(100, 1)
        ELSE Rat(100 * (maximum - dist), maximum)

\* The substrings of the longer string rapidfuzz's partial_ratio aligns the
\* shorter one with: every window of len(shorter) characters, cut at both
\* ends of the longer string, as 0-based [from, to) pairs
PartialWindows(len1, len2) ==
    { <<0, k>> : k \in 1..(len1 - 1) }
        \cup { <<k, k + len1>> : k \in 0..(len2 - len1 - 1) }
        \cup { <<k, len2>> : k \in (len2 - len1)..(len2 - 1) }

\* the largest of a non-empty set of scores
RatMax(S) == CHOOSE x \in S : \A y \in S : RatGE(x, y)

\* rapidfuzz's _partial_ratio_impl: the best ratio of the shorter string
\* against a window of the longer one (shorter is not empty)
partial_ratio_impl(shorter, longer) ==
    RatMax({ fuzz_ratio(shorter, Slice(longer, w[1], w[2])) :
                w \in PartialWindows(Len(shorter), Len(longer)) })

\* rapidfuzz.fuzz.partial_ratio: 100 for two empty strings, 0 when one is
\* empty; strings of equal length are aligned both ways round
fuzz_partial_ratio(s1, s2) ==
    LET shorter == IF Len(s1) <= Len(s2) THEN s1 ELSE s2
        longer  == IF Len(s1) <= Len(s2) THEN s2 ELSE s1
    IN  IF Len(s1) = 0 /\ Len(s2) = 0 THEN Rat(100, 1)
        ELSE IF Len(shorter) = 0 THEN Rat(0, 1)
        ELSE IF Len(s1) = Len(s2)
        THEN RatMax({partial_ratio_impl(shorter, longer),
                     partial_ratio_impl(longer, shorter)})
        ELSE partial_ratio_impl(shorter, longer)

\* thefuzz.fuzz.ratio: int(round(rapidfuzz.fuzz.ratio(s1, s2)))
tfuzz_ratio(s1, s2) == Rat(RoundHalfEven(fuzz_ratio(s1, s2)), 1)

\* thefuzz.fuzz.partial_ratio: int(round(rapidfuzz.fuzz.partial_ratio(s1, s2)))
tfuzz_partial_ratio(s1, s2) == Rat(RoundHalfEven(fuzz_partial_ratio(s1, s2)), 1)

\* difflib.SequenceMatcher.find_longest_match without junk: the longest block
\* a[x:x+k] == b[y:y+k], the one starting earliest in a, then earliest in b;
\* <<x, y, k>> 0-based, k = 0 when nothing matches
LongestMatch(a, b) ==
    LET blocks == { <<x, y, k>> \in (0..Len(a)) \X (0..Len(b)) \X (1..Min(Len(a), Len(b))) :
                       /\ x + k <= Len(a)
                       /\ y + k <= Len(b)
                       /\ Slice(a, x, x + k) = Slice(b, y, y + k) }
    IN  IF blocks = {} THEN <<0, 0, 0>>
        ELSE CHOOSE m \in blocks : \A n \in blocks :
                \/ m[3] > n[3]
                \/ m[3] = n[3] /\ m[1] < n[1]
                \/ m[3] = n[3] /\ m[1] = n[1] /\ m[2] <= n[2]

\* the characters in difflib's matching blocks: the longest match, then the
\* pieces to its left and to its right
RECURSIVE MatchingChars(_, _)
MatchingChars(a, b) ==
    LET m == LongestMatch(a, b)
    IN  IF m[3] = 0 THEN 0
        ELSE m[3] + MatchingChars(Slice(a, 0, m[1]), Slice(b, 0, m[2]))
                  + MatchingChars(Slice(a, m[1] + m[3], Len(a)), Slice(b, m[2] + m[3], Len(b)))

\* the characters a and b share, counted with multiplicity (quick_ratio)
SharedChars(a, b) ==
    LET count(s, c) == Cardinality({k \in 1..Len(s) : s[k] = c})
        cs == Chars(a)
        RECURSIVE Sum(_)
        Sum(S) == IF S = {} THEN 0
                  ELSE LET c == CHOOSE c \in S : TRUE
                       IN  Min(count(a, c), count(b, c)) + Sum(S \ {c})
    IN  Sum(cs)

(* Doubles.  A natural number of any size is the sequence of its binary
   digits, the lowest first; a positive double is <<m, e>>, the number
   m * 2^e with m of at most 53 digits. *)

\* the significant digits of a double
Precision == 53

RECURSIVE NatBits(_)
NatBits(n) == IF n = 0 THEN <<>> ELSE <<n % 2>> \o NatBits(n \div 2)

\* x * 2^k
ShiftLeft(x, k) == [n \in 1..k |-> 0] \o x

\* without the zeros at the high end
Trim(x) ==
    LET ones == {k \in 1..Len(x) : x[k] = 1}
    IN  IF ones = {} THEN <<>>
        ELSE SubSeq(x, 1, CHOOSE k \in ones : \A m \in ones : m <= k)

\* x + 1: the ones below the lowest zero become zeros, that zero a one
Inc(x) ==
    LET zeros == {k \in 1..Len(x) : x[k] = 0} \cup {Len(x) + 1}
        z == CHOOSE k \in zeros : \A m \in zeros : k <= m
    IN  [k \in 1..Max(Len(x), z) |->
            IF k < z THEN 0 ELSE IF k = z THEN 1 ELSE x[k]] @@ <<>>

\* x * t for a small number t, digit by digit from position k to position
\* last; acc is <<the digits so far, the carry>>
RECURSIVE MulSteps(_, _, _, _, _)
MulSteps(x, t, k, last, acc) ==
    IF k > last THEN acc
    ELSE LET v == x[k] * t + acc[2]
             next == <<Append(acc[1], v % 2), v \div 2>>
         IN  IF Len(next) = 2 THEN MulSteps(x, t, k + 1, last, next) ELSE acc
\* the digits of acc, and above them the digits of its carry
with_carry(acc) == acc[1] \o NatBits(acc[2])

\* x * t + carry, for x of at most 64 digits, in four runs of 16 digits
MulSmall(x, t, carry) ==
    with_carry(MulSteps(x, t, 49, Min(Len(x), 64),
               MulSteps(x, t, 33, Min(Len(x), 48),
               MulSteps(x, t, 17, Min(Len(x), 32),
               MulSteps(x, t, 1, Min(Len(x), 16), <<<<>>, carry>>)))))

\* -1, 0, 1 as x is below, equal to, above y (both without high zeros)
CompareBits(x, y) ==
    LET differ == {k \in 1..Min(Len(x), Len(y)) : x[k] # y[k]}
        top == CHOOSE k \in differ : \A m \in differ : m <= k
    IN  IF Len(x) # Len(y) THEN (IF Len(x) < Len(y) THEN -1 ELSE 1)
        ELSE IF differ = {} THEN 0
        ELSE IF x[top] < y[top] THEN -1 ELSE 1

\* long division: k more digits of the quotient by t; acc is <<the digits
\* so far, the remainder>>
RECURSIVE DivBits(_, _, _)
DivBits(t, k, acc) ==
    IF k = 0 THEN acc
    ELSE LET bit == IF 2 * acc[2] >= t THEN 1 ELSE 0
             next == <<<<bit>> \o acc[1], 2 * acc[2] - bit * t>>
         IN  IF Len(next) = 2 THEN DivBits(t, k - 1, next) ELSE acc

\* the least s with n * 2^s >= t
RECURSIVE Scale(_, _, _)
Scale(n, t, s) == IF n >= t THEN s ELSE Scale(2 * n, t, s + 1)

\* the quotient d = <<digits, remainder>> of a division by t, rounded to
\* the nearest, a tie to the even digit
round_quotient(d, t) ==
    IF 2 * d[2] > t \/ (2 * d[2] = t /\ d[1][1] = 1) THEN Inc(d[1]) ELSE d[1]

\* the double n / t for small numbers 0 < n <= t: the quotient to 53
\* digits, rounded to the nearest, a tie to the even digit
FloatDiv(n, t) ==
    LET s == Scale(n, t, 0)
    IN  \* the 52 digits after the first, in four runs of 13
        <<round_quotient(DivBits(t, 13, DivBits(t, 13, DivBits(t, 13,
                             DivBits(t, 13, <<<<1>>, n * 2^s - t>>)))), t),
          0 - (s + Precision - 1)>>

\* the number x * 2^e as a double: 53 digits kept, rounded to the nearest,
\* a tie to the even digit
RoundToDouble(x, e) ==
    LET drop == Len(x) - Precision
        kept == SubSeq(x, drop + 1, Len(x))
        up == /\ x[drop] = 1
              /\ \/ \E k \in 1..(drop - 1) : x[k] = 1
                 \/ kept[1] = 1
    IN  IF drop <= 0 THEN <<x, e>>
        ELSE <<IF up THEN Inc(kept) ELSE kept, e + drop>>

\* the double f * c for a small number c
FloatMul(f, c) == RoundToDouble(Trim(MulSmall(f[1], c, 0)), f[2])

\* -1, 0, 1 as left * 2^e is below, equal to, above right
compare_scaled(left, right, e) ==
    IF e <= 0 THEN CompareBits(left, ShiftLeft(right, 0 - e))
    ELSE CompareBits(ShiftLeft(left, e), right)

\* -1, 0, 1 as the double f is below, equal to, above n / t
CompareToRat(f, n, t) == compare_scaled(Trim(MulSmall(f[1], t, 0)), NatBits(n), f[2])

\* the double (2.0 * matches / length) * 100 against the rational
\* 200 * matches / length: -1 when it lies below, 1 above, 0 when equal
double_side(matches, length) ==
    CompareToRat(FloatMul(FloatDiv(2 * matches, length), 100),
                 200 * matches, length)

\* double_side of the short sequences, computed once
DoubleSides ==
    [length \in 1..(2 * (MaxNameLen + MaxStrLen)) |->
        [matches \in 1..(length \div 2) |-> double_side(matches, length)] @@ <<>>] @@ <<>>

\* double_side, looked up in the table where the table has it
side_in(table, matches, length) ==
    IF length \in DOMAIN table /\ matches \in DOMAIN table[length]
    THEN table[length][matches]
    ELSE double_side(matches, length)

\* the score exact, marked with the side its double lies on
with_side(exact, side) == IF side = 0 THEN exact ELSE exact \o <<side>>

\* difflib's _calculate_ratio, times 100 as get_score has it: the double
\* (2.0 * matches / length) * 100, and 1.0 * 100 when length is 0
calculate_ratio(matches, length) ==
    IF length = 0 THEN Rat(100, 1)
    ELSE IF matches = 0 THEN Rat(0, 1)
    ELSE with_side(Rat(200 * matches, length),
                   side_in(DoubleSides, matches, length))

\* SequenceMatcher(None, a, b, autojunk=False).ratio() * 100
difflib_ratio(a, b) == calculate_ratio(MatchingChars(a, b), Len(a) + Len(b))

\* SequenceMatcher(None, a, b, autojunk=False).quick_ratio() * 100
difflib_quick_ratio(a, b) == calculate_ratio(SharedChars(a, b), Len(a) + Len(b))

valid_libraries == {"rapidfuzz", "thefuzz", "difflib"}
valid_methods == {"exact", "partial"}

\* get_score raises ValueError: the library or the method is not a valid one
get_score_raises(lib, method) ==
    lib \notin valid_libraries \/ method \notin valid_methods

\* get_score with the difflib ratios returned as they are (0..1)
get_score_unscaled(lib, method, name, target) ==
    CASE lib = "rapidfuzz" /\ method = "exact" -> fuzz_ratio(name, target)
      [] lib = "rapidfuzz" /\ method # "exact" -> fuzz_partial_ratio(name, target)
      [] lib = "thefuzz" /\ method = "exact" -> tfuzz_ratio(name, target)
      [] lib = "thefuzz" /\ method # "exact" -> tfuzz_partial_ratio(name, target)
      [] lib = "difflib" /\ method = "exact" ->
            Rat(difflib_ratio(name, target)[1], 100 * difflib_ratio(name, target)[2])
      [] lib = "difflib" /\ method # "exact" ->
            Rat(difflib_quick_ratio(name, target)[1],
                100 * difflib_quick_ratio(name, target)[2])

\* get_score whose last branch computes the ratio and does not return it
get_score_no_return(lib, method, name, target) ==
    CASE lib = "rapidfuzz" /\ method = "exact" -> fuzz_ratio(name, target)
      [] lib = "rapidfuzz" /\ method # "exact" -> fuzz_partial_ratio(name, target)
      [] lib = "thefuzz" /\ method = "exact" -> tfuzz_ratio(name, target)
      [] lib = "thefuzz" /\ method # "exact" -> tfuzz_partial_ratio(name, target)
      [] lib = "difflib" /\ method = "exact" -> difflib_ratio(name, target)
      [] lib = "difflib" /\ method # "exact" -> <<>>

\* get_score's return value, for a valid library and method
get_score(lib, method, name, target) ==
    CASE lib = "rapidfuzz" /\ method = "exact" -> fuzz_ratio(name, target)
      [] lib = "rapidfuzz" /\ method # "exact" -> fuzz_partial_ratio(name, target)
      [] lib = "thefuzz" /\ method = "exact" -> tfuzz_ratio(name, target)
      [] lib = "thefuzz" /\ method # "exact" -> tfuzz_partial_ratio(name, target)
      [] lib = "difflib" /\ method = "exact" -> difflib_ratio(name, target)
      [] lib = "difflib" /\ method # "exact" -> difflib_quick_ratio(name, target)

----------------------------------------------------------------------------
(* string_matching *)

\* best_match is None (<<>>) or one target name (<<name>>)
None == <<>>
Some(name) == <<name>>

\* `if best_match:` a name other than None and other than ""
Truthy(best) == best # None /\ best[1] # <<>>

\* the string that is scored for a target: in filename mode its stem,
\* normalized; otherwise the whole target, normalized
normalized_target_of(target_name, fmode, pattern) ==
    IF fmode
    THEN normalize_string(remove_extension(target_name), pattern)
    ELSE normalize_string(target_name, pattern)

\* the filter with the rule set of the host (os_type="unix")
skipped_unix(target_name, fmode) ==
    fmode /\ ~is_valid_filename(target_name, "unix")

\* the filename filter of the inner loop: the target is not scored
skipped(target_name, fmode) ==
    fmode /\ ~is_valid_filename(target_name, "windows")

\* update_best with `if score >= highest_score:`
update_best_ge(best, highest, score, threshold, target_name) ==
    IF RatGE(score, highest)
    THEN <<IF RatGE(score, Rat(threshold, 1)) THEN Some(target_name) ELSE best, score>>
    ELSE <<best, highest>>

\* update_best without the threshold test
update_best_no_threshold(best, highest, score, threshold, target_name) ==
    IF RatGT(score, highest)
    THEN <<Some(target_name), score>>
    ELSE <<best, highest>>

\* update_best after `target_name = remove_extension(filename=target_name)`
update_best_stem(best, highest, score, threshold, target_name) ==
    IF RatGT(score, highest)
    THEN <<IF RatGE(score, Rat(threshold, 1))
           THEN Some(remove_extension(target_name)) ELSE best, score>>
    ELSE <<best, highest>>

\* update_best with `if score >= similarity_threshold:` alone, whatever the
\* highest score so far
update_best_last_accepted(best, highest, score, threshold, target_name) ==
    IF RatGE(score, Rat(threshold, 1)) /\ RatGT(score, Rat(0, 1))
    THEN <<Some(target_name), IF RatGT(score, highest) THEN score ELSE highest>>
    ELSE <<best, IF RatGT(score, highest) THEN score ELSE highest>>

\* the running best after one score: <<best_match, highest_score>>
update_best(best, highest, score, threshold, target_name) ==
    IF RatGT(score, highest)
    THEN <<IF RatGE(score, Rat(threshold, 1)) THEN Some(target_name) ELSE best, score>>
    ELSE <<best, highest>>

\* NextBase with the base name treated like a target of filename mode:
\* normalize_string(s=remove_extension(filename=base_name), ...)
NextBase_stem ==
    /\ pc = "outer"
    /\ i < Len(base_list)
    /\ i' = i + 1
    /\ normalized_name' = normalized_target_of(base_list[i + 1], filename_mode,
                                               normalization_pattern)
    /\ best_match' = None
    /\ highest_score' = Rat(0, 1)
    /\ j' = 0
    /\ pc' = "inner"
    /\ UNCHANGED <<base_list, target_list, library, match_method, similarity_threshold,
                   normalization_pattern, filename_mode, matched_results,
                   unmatched_names, scored, log, normalized_target>>

\* NextBase with `highest_score = -1`
NextBase_minus_one ==
    /\ pc = "outer"
    /\ i < Len(base_list)
    /\ i' = i + 1
    /\ normalized_name' = normalize_string(base_list[i + 1], normalization_pattern)
    /\ best_match' = None
    /\ highest_score' = <<-1, 1>>
    /\ j' = 0
    /\ pc' = "inner"
    /\ UNCHANGED <<base_list, target_list, library, match_method, similarity_threshold,
                   normalization_pattern, filename_mode, matched_results,
                   unmatched_names, scored, log, normalized_target>>

\* `for base_name in base_list:` takes the next base name
NextBase ==
    /\ pc = "outer"
    /\ i < Len(base_list)
    /\ i' = i + 1
    /\ normalized_name' = normalize_string(base_list[i + 1], normalization_pattern)
    /\ best_match' = None
    /\ highest_score' = Rat(0, 1)
    /\ j' = 0
    /\ pc' = "inner"
    /\ UNCHANGED <<base_list, target_list, library, match_method, similarity_threshold,
                   normalization_pattern, filename_mode, matched_results,
                   unmatched_names, scored, log, normalized_target>>

\* one pass of `for target_name in target_list:` that ends in `continue`
SkipTarget ==
    /\ pc = "inner"
    /\ j < Len(target_list)
    /\ skipped(target_list[j + 1], filename_mode)
    /\ log' = Append(log, target_list[j + 1])
    /\ j' = j + 1
    /\ UNCHANGED <<base_list, target_list, library, match_method, similarity_threshold,
                   normalization_pattern, filename_mode, pc, i, normalized_name,
                   best_match, highest_score, matched_results, unmatched_names, scored,
                   normalized_target>>

\* one pass of the inner loop in which get_score raises ValueError
ScoreRaises ==
    /\ pc = "inner"
    /\ j < Len(target_list)
    /\ ~skipped(target_list[j + 1], filename_mode)
    /\ get_score_raises(library, match_method)
    /\ normalized_target' = normalized_target_of(target_list[j + 1], filename_mode,
                                                 normalization_pattern)
    /\ pc' = "raised"
    /\ UNCHANGED <<base_list, target_list, library, match_method, similarity_threshold,
                   normalization_pattern, filename_mode, i, j, normalized_name,
                   best_match, highest_score, matched_results, unmatched_names,
                   scored, log>>

\* one pass of the inner loop that scores the target and updates the best
ScoreTarget ==
    /\ pc = "inner"
    /\ j < Len(target_list)
    /\ ~skipped(target_list[j + 1], filename_mode)
    /\ ~get_score_raises(library, match_method)
    /\ LET target_name == target_list[j + 1]
           target == normalized_target_of(target_name, filename_mode,
                                          normalization_pattern)
           score == get_score(library, match_method, normalized_name, target)
           next == update_best(best_match, highest_score, score,
                               similarity_threshold, target_name)
       IN  /\ normalized_target' = target
           /\ best_match' = next[1]
           /\ highest_score' = next[2]
           /\ scored' = scored \cup {<<i, j + 1>>}
    /\ j' = j + 1
    /\ UNCHANGED <<base_list, target_list, library, match_method, similarity_threshold,
                   normalization_pattern, filename_mode, pc, i, normalized_name,
                   matched_results, unmatched_names, log>>

\* matched_after with `if best_match is not None:`
matched_after_if_not_none(results, base_name, best) ==
    IF best # None
    THEN Append(results, [name |-> base_name, matched_name |-> best[1]])
    ELSE results

\* matched_after with `matched_results.insert(0, {...})`
matched_after_prepend(results, base_name, best) ==
    IF Truthy(best)
    THEN <<[name |-> base_name, matched_name |-> best[1]]>> \o results
    ELSE results

\* the inner loop is over: the base name goes to one of the two lists
matched_after(results, base_name, best) ==
    IF Truthy(best)
    THEN Append(results, [name |-> base_name, matched_name |-> best[1]])
    ELSE results

\* unmatched_after with `elif best_match is None:`
unmatched_after_if_none(names, base_name, best) ==
    IF best # None THEN names ELSE Append(names, base_name)

\* unmatched_after with `unmatched_names.insert(0, base_name)`
unmatched_after_prepend(names, base_name, best) ==
    IF Truthy(best) THEN names ELSE <<base_name>> \o names

unmatched_after(names, base_name, best) ==
    IF Truthy(best) THEN names ELSE Append(names, base_name)

EndBase ==
    /\ pc = "inner"
    /\ j = Len(target_list)
    /\ matched_results' = matched_after(matched_results, base_list[i], best_match)
    /\ unmatched_names' = unmatched_after(unmatched_names, base_list[i], best_match)
    /\ pc' = "outer"
    /\ UNCHANGED <<base_list, target_list, library, match_method, similarity_threshold,
                   normalization_pattern, filename_mode, i, j, normalized_name,
                   best_match, highest_score, scored, log, normalized_target>>

\* Return with an early `if not target_list: return matched_results, unmatched_names`
Return_early ==
    /\ pc = "outer"
    /\ i = Len(base_list) \/ target_list = <<>>
    /\ pc' = "done"
    /\ UNCHANGED <<base_list, target_list, library, match_method, similarity_threshold,
                   normalization_pattern, filename_mode, i, j, normalized_name,
                   best_match, highest_score, matched_results, unmatched_names,
                   scored, log, normalized_target>>

\* `return matched_results, unmatched_names`
Return ==
    /\ pc = "outer"
    /\ i = Len(base_list)
    /\ pc' = "done"
    /\ UNCHANGED <<base_list, target_list, library, match_method, similarity_threshold,
                   normalization_pattern, filename_mode, i, j, normalized_name,
                   best_match, highest_score, matched_results, unmatched_names,
                   scored, log, normalized_target>>

\* string_matching as a function of its two lists (the other parameters are
\* those of the call): the inner loop for one normalized base name ...
RECURSIVE best_over(_, _, _, _, _)
best_over(name, targets, k, best, highest) ==
    IF k > Len(targets) THEN best
    ELSE IF skipped(targets[k], filename_mode)
    THEN best_over(name, targets, k + 1, best, highest)
    ELSE LET score == get_score(library, match_method, name,
                                normalized_target_of(targets[k], filename_mode,
                                                     normalization_pattern))
             next == update_best(best, highest, score, similarity_threshold, targets[k])
         IN  best_over(name, targets, k + 1, next[1], next[2])

\* ... and the outer loop: <<matched_results, unmatched_names>>
RECURSIVE string_matching(_, _, _, _, _)
string_matching(bases, targets, n, results, names) ==
    IF n > Len(bases) THEN <<results, names>>
    ELSE LET best == best_over(normalize_string(bases[n], normalization_pattern),
                               targets, 1, None, Rat(0, 1))
         IN  string_matching(bases, targets, n + 1,
                             matched_after(results, bases[n], best),
                             unmatched_after(names, bases[n], best))

----------------------------------------------------------------------------
(* The inputs string_matching is run on *)

Str_A_b     == <<"A", ".", "b">>
Str_dash    == <<"-">>
Str_ab_x    == <<"a", "b", ".", "x">>
Str_AB      == <<"A", "B">>
Str_a_lt_b  == <<"a", "<", "b">>
Str_b       == <<"b">>
Str_empty   == <<>>

BaseNames == {Str_A_b, Str_dash}
TargetNames == {Str_ab_x, Str_AB, Str_a_lt_b, Str_b, Str_empty}
Libraries == valid_libraries \cup {"unknown"}
Methods == valid_methods \cup {"fuzzy"}
Thresholds == {0, 80, 100}
Patterns == {DefaultPattern}

\* the variables of the other entry points, while they are not called
NoValidCall ==
    /\ vf_filename = <<>>
    /\ vf_os_type = "windows"
    /\ vf_result = None
NoStemCall ==
    /\ re_filename = <<>>
    /\ re_result = None
NoNormalizeCall ==
    /\ ns_s = <<>>
    /\ ns_filter_pattern = DefaultPattern
    /\ ns_result = None
    /\ ns_again = None
NoScoreCall ==
    /\ gs_library = "rapidfuzz"
    /\ gs_match_method = "exact"
    /\ gs_normalized_name = <<>>
    /\ gs_normalized_target = <<>>
    /\ gs_result = None
NoNamesCall ==
    /\ mn_name_lines = <<>>
    /\ mn_filename_lines = <<>>
    /\ mn_files_exist = TRUE
    /\ mn_io = [readable |-> TRUE, unwritable |-> 0]
    /\ mn_sort = TRUE
    /\ mn_verbose = TRUE
    /\ mn_output_to_file = FALSE
    /\ mn_result = None
    /\ mn_log = <<>>
    /\ mn_files = None
\* no RateLimiter is constructed
NoLimiterCall ==
    /\ rl_max_requests = 1
    /\ rl_interval_seconds = 1
    /\ rl_timestamps = <<>>
    /\ rl_time = 0
    /\ rl_pc = "none"
    /\ rl_current_time = 0
    /\ rl_wake = 0
    /\ rl_granted = <<>>
    /\ rl_call = [timestamps |-> <<>>, time |-> 0, granted |-> 0, slept |-> FALSE]
NoChecksumCall ==
    /\ cc_file = <<>>
    /\ cc_checksum_type = <<>>
    /\ cc_result = None
\* no call runs its outer loop on workers
NoParallelCall == workers = <<>>
\* string_matching's variables while it is not called
NoMatchCall ==
    /\ base_list = <<>>
    /\ target_list = <<>>
    /\ library = "rapidfuzz"
    /\ match_method = "exact"
    /\ similarity_threshold = 0
    /\ normalization_pattern = DefaultPattern
    /\ filename_mode = TRUE
    /\ pc = "idle"
    /\ i = 0
    /\ j = 0
    /\ normalized_name = <<>>
    /\ normalized_target = <<>>
    /\ best_match = None
    /\ highest_score = Rat(0, 1)
    /\ matched_results = <<>>
    /\ unmatched_names = <<>>
    /\ scored = {}
    /\ log = <<>>

Init ==
    /\ base_list \in SeqsUpTo(BaseNames, MaxBase)
    /\ target_list \in SeqsUpTo(TargetNames, MaxTargets)
    /\ library \in Libraries
    /\ match_method \in Methods
    /\ similarity_threshold \in Thresholds
    /\ normalization_pattern \in Patterns
    /\ filename_mode \in BOOLEAN
    /\ pc = "outer"
    /\ i = 0
    /\ j = 0
    /\ normalized_name = <<>>
    /\ best_match = None
    /\ highest_score = Rat(0, 1)
    /\ matched_results = <<>>
    /\ unmatched_names = <<>>
    /\ normalized_target = <<>>
    /\ scored = {}
    /\ log = <<>>
    /\ NoParallelCall
    /\ NoValidCall /\ NoStemCall /\ NoNormalizeCall /\ NoScoreCall /\ NoNamesCall
    /\ NoLimiterCall /\ NoChecksumCall

notMatchVars == <<workerVars, validVars, stemVars, normVars, scoreVars, namesVars, limiterVars, checksumVars>>

Next ==
    \/ NextBase /\ UNCHANGED notMatchVars
    \/ SkipTarget /\ UNCHANGED notMatchVars
    \/ ScoreRaises /\ UNCHANGED notMatchVars
    \/ ScoreTarget /\ UNCHANGED notMatchVars
    \/ EndBase /\ UNCHANGED notMatchVars
    \/ Return /\ UNCHANGED notMatchVars

Spec == Init /\ [][Next]_vars

----------------------------------------------------------------------------
(* string_matching run on the names of the documented scenario *)

\* "super mario bros"
Str_super_mario_bros ==
    <<"s", "u", "p", "e", "r", " ", "m", "a", "r", "i", "o", " ", "b", "r",
      "o", "s">>
\* "Super Mario Bros. (USA).nes"
Str_Super_Mario_Bros_USA_nes ==
    <<"S", "u", "p", "e", "r", " ", "M", "a", "r", "i", "o", " ", "B", "r",
      "o", "s", ".", " ", "(", "U", "S", "A", ")", ".", "n", "e", "s">>
\* "Super Mario Bros 2 (USA).nes"
Str_Super_Mario_Bros_2_USA_nes ==
    <<"S", "u", "p", "e", "r", " ", "M", "a", "r", "i", "o", " ", "B", "r",
      "o", "s", " ", "2", " ", "(", "U", "S", "A", ")", ".", "n", "e", "s">>
\* "Mario?.nes", a name the filter of filename mode rejects
Str_Mario_qm_nes ==
    <<"M", "a", "r", "i", "o", "?", ".", "n", "e", "s">>

ScenarioBaseNames == {Str_super_mario_bros}
ScenarioTargetNames == {Str_Super_Mario_Bros_USA_nes, Str_Super_Mario_Bros_2_USA_nes,
                        Str_Mario_qm_nes}

InitScenario ==
    /\ base_list \in SeqsUpTo(ScenarioBaseNames, MaxBase)
    /\ target_list \in SeqsUpTo(ScenarioTargetNames, MaxTargets)
    /\ library \in {"rapidfuzz", "unknown"}
    /\ match_method = "exact"
    /\ similarity_threshold \in {80, 100}
    /\ normalization_pattern = DefaultPattern
    /\ filename_mode \in BOOLEAN
    /\ pc = "outer"
    /\ i = 0
    /\ j = 0
    /\ normalized_name = <<>>
    /\ normalized_target = <<>>
    /\ best_match = None
    /\ highest_score = Rat(0, 1)
    /\ matched_results = <<>>
    /\ unmatched_names = <<>>
    /\ scored = {}
    /\ log = <<>>
    /\ NoParallelCall
    /\ NoValidCall /\ NoStemCall /\ NoNormalizeCall /\ NoScoreCall /\ NoNamesCall
    /\ NoLimiterCall /\ NoChecksumCall

SpecScenario == InitScenario /\ [][Next]_vars

----------------------------------------------------------------------------
(* string_matching run on base names of which two different ones find a
   match: "b" in the target "b", "A.b" in the target "AB" *)

OrderBaseNames == {Str_b, Str_dash, Str_A_b}
OrderTargetNames == {Str_AB, Str_b, Str_a_lt_b}

InitOrder ==
    /\ base_list \in SeqsUpTo(OrderBaseNames, MaxBase + 1)
    /\ target_list \in SeqsUpTo(OrderTargetNames, MaxTargets)
    /\ library \in {"rapidfuzz", "unknown"}
    /\ match_method = "exact"
    /\ similarity_threshold = 80
    /\ normalization_pattern = DefaultPattern
    /\ filename_mode \in BOOLEAN
    /\ pc = "outer"
    /\ i = 0
    /\ j = 0
    /\ normalized_name = <<>>
    /\ normalized_target = <<>>
    /\ best_match = None
    /\ highest_score = Rat(0, 1)
    /\ matched_results = <<>>
    /\ unmatched_names = <<>>
    /\ scored = {}
    /\ log = <<>>
    /\ NoParallelCall
    /\ NoValidCall /\ NoStemCall /\ NoNormalizeCall /\ NoScoreCall /\ NoNamesCall
    /\ NoLimiterCall /\ NoChecksumCall

SpecOrder == InitOrder /\ [][Next]_vars

----------------------------------------------------------------------------
(* string_matching with the outer loop parallelized across base names, as
   section 5 of the specification allows: one worker per base name runs the
   body of the outer loop (l.213-236) for it, on its own copies of the
   locals of that body and in target_list order; the steps of the workers
   interleave in any order.  The caller collects the results in base_list
   order (l.238-241). *)

\* a worker that has not started: j is the number of targets its pass has
\* gone through; interleaved tells whether one of its steps was taken while
\* the pass of another worker was between two of its targets
ReadyWorker ==
    [pc |-> "ready", j |-> 0, normalized_name |-> <<>>, normalized_target |-> <<>>,
     best_match |-> None, highest_score |-> Rat(0, 1), interleaved |-> FALSE]

\* another worker is between two targets of its inner loop
AmidAnother(w) ==
    \E v \in DOMAIN workers \ {w} :
        /\ workers[v].pc = "inner"
        /\ workers[v].j > 0
        /\ workers[v].j < Len(target_list)

\* WorkerBegins with best_match and highest_score shared by the workers:
\* the pass starts from what the pass of the base name before it holds
WorkerBegins_shared_best(w) ==
    /\ pc = "parallel"
    /\ workers[w].pc = "ready"
    /\ workers' = [workers EXCEPT ![w] =
            [@ EXCEPT !.pc = "inner",
                      !.normalized_name =
                            normalize_string(base_list[w], normalization_pattern),
                      !.best_match =
                            IF w > 1 THEN workers[w - 1].best_match ELSE None,
                      !.highest_score =
                            IF w > 1 THEN workers[w - 1].highest_score ELSE Rat(0, 1)]]
    /\ UNCHANGED matchVars

\* the pass for base_list[w] starts: l.213-216
WorkerBegins(w) ==
    /\ pc = "parallel"
    /\ workers[w].pc = "ready"
    /\ workers' = [workers EXCEPT ![w] =
            [@ EXCEPT !.pc = "inner",
                      !.normalized_name =
                            normalize_string(base_list[w], normalization_pattern),
                      !.best_match = None,
                      !.highest_score = Rat(0, 1)]]
    /\ UNCHANGED matchVars

\* one pass of its inner loop that ends in `continue` (l.217-222)
WorkerSkips(w) ==
    /\ pc = "parallel"
    /\ workers[w].pc = "inner"
    /\ workers[w].j < Len(target_list)
    /\ skipped(target_list[workers[w].j + 1], filename_mode)
    /\ log' = Append(log, target_list[workers[w].j + 1])
    /\ workers' = [workers EXCEPT ![w] =
            [@ EXCEPT !.j = @ + 1,
                      !.interleaved = @ \/ AmidAnother(w)]]
    /\ UNCHANGED <<base_list, target_list, library, match_method, similarity_threshold,
                   normalization_pattern, filename_mode, pc, i, j, normalized_name,
                   best_match, highest_score, matched_results, unmatched_names, scored,
                   normalized_target>>

\* one pass of its inner loop in which get_score raises ValueError (l.230)
WorkerRaises(w) ==
    /\ pc = "parallel"
    /\ workers[w].pc = "inner"
    /\ workers[w].j < Len(target_list)
    /\ ~skipped(target_list[workers[w].j + 1], filename_mode)
    /\ get_score_raises(library, match_method)
    /\ workers' = [workers EXCEPT ![w] =
            [@ EXCEPT !.pc = "raised",
                      !.normalized_target =
                            normalized_target_of(target_list[workers[w].j + 1],
                                                 filename_mode, normalization_pattern),
                      !.interleaved = @ \/ AmidAnother(w)]]
    /\ UNCHANGED matchVars

\* one pass of its inner loop that scores the target and updates the
\* worker's best (l.217-236)
WorkerScores(w) ==
    /\ pc = "parallel"
    /\ workers[w].pc = "inner"
    /\ workers[w].j < Len(target_list)
    /\ ~skipped(target_list[workers[w].j + 1], filename_mode)
    /\ ~get_score_raises(library, match_method)
    /\ LET target_name == target_list[workers[w].j + 1]
           target == normalized_target_of(target_name, filename_mode,
                                          normalization_pattern)
           score == get_score(library, match_method, workers[w].normalized_name,
                              target)
           next == update_best(workers[w].best_match, workers[w].highest_score,
                               score, similarity_threshold, target_name)
       IN  workers' = [workers EXCEPT ![w] =
                [@ EXCEPT !.j = @ + 1,
                          !.normalized_target = target,
                          !.best_match = next[1],
                          !.highest_score = next[2],
                          !.interleaved = @ \/ AmidAnother(w)]]
    /\ scored' = scored \cup {<<w, workers[w].j + 1>>}
    /\ UNCHANGED <<base_list, target_list, library, match_method, similarity_threshold,
                   normalization_pattern, filename_mode, pc, i, j, normalized_name,
                   best_match, highest_score, matched_results, unmatched_names, log,
                   normalized_target>>

\* its inner loop is over: the worker has its best_match to hand over
WorkerEnds(w) ==
    /\ pc = "parallel"
    /\ workers[w].pc = "inner"
    /\ workers[w].j = Len(target_list)
    /\ workers' = [workers EXCEPT ![w] = [@ EXCEPT !.pc = "ended"]]
    /\ UNCHANGED matchVars

\* the caller takes the result of the next base name, in base_list order,
\* once its worker is over, and files it as l.238-241 do
Collect ==
    /\ pc = "parallel"
    /\ i < Len(base_list)
    /\ workers[i + 1].pc = "ended"
    /\ matched_results' = matched_after(matched_results, base_list[i + 1],
                                        workers[i + 1].best_match)
    /\ unmatched_names' = unmatched_after(unmatched_names, base_list[i + 1],
                                          workers[i + 1].best_match)
    /\ i' = i + 1
    /\ UNCHANGED <<base_list, target_list, library, match_method, similarity_threshold,
                   normalization_pattern, filename_mode, pc, j, normalized_name,
                   best_match, highest_score, scored, log, normalized_target>>
    /\ UNCHANGED workerVars

\* the ValueError of a worker reaches the caller when it takes that result
CollectRaises ==
    /\ pc = "parallel"
    /\ i < Len(base_list)
    /\ workers[i + 1].pc = "raised"
    /\ pc' = "raised"
    /\ UNCHANGED <<base_list, target_list, library, match_method, similarity_threshold,
                   normalization_pattern, filename_mode, i, j, normalized_name,
                   best_match, highest_score, matched_results, unmatched_names,
                   scored, log, normalized_target>>
    /\ UNCHANGED workerVars

\* every result is collected: `return matched_results, unmatched_names`
ParallelReturn ==
    /\ pc = "parallel"
    /\ i = Len(base_list)
    /\ pc' = "done"
    /\ UNCHANGED <<base_list, target_list, library, match_method, similarity_threshold,
                   normalization_pattern, filename_mode, i, j, normalized_name,
                   best_match, highest_score, matched_results, unmatched_names,
                   scored, log, normalized_target>>
    /\ UNCHANGED workerVars

ParallelBaseNames == {Str_b, Str_A_b}
ParallelTargetNames == {Str_AB, Str_b, Str_a_lt_b}

InitParallel ==
    /\ base_list \in SeqsUpTo(ParallelBaseNames, MaxBase)
    /\ target_list \in SeqsUpTo(ParallelTargetNames, MaxTargets)
    /\ library \in {"rapidfuzz", "unknown"}
    /\ match_method = "exact"
    /\ similarity_threshold = 80
    /\ normalization_pattern = DefaultPattern
    /\ filename_mode \in BOOLEAN
    /\ pc = "parallel"
    /\ i = 0
    /\ j = 0
    /\ normalized_name = <<>>
    /\ normalized_target = <<>>
    /\ best_match = None
    /\ highest_score = Rat(0, 1)
    /\ matched_results = <<>>
    /\ unmatched_names = <<>>
    /\ scored = {}
    /\ log = <<>>
    /\ workers = [w \in 1..Len(base_list) |-> ReadyWorker]
    /\ NoValidCall /\ NoStemCall /\ NoNormalizeCall /\ NoScoreCall /\ NoNamesCall
    /\ NoLimiterCall /\ NoChecksumCall

notParallelVars == <<validVars, stemVars, normVars, scoreVars, namesVars, limiterVars,
                     checksumVars>>

NextParallel ==
    \/ \E w \in DOMAIN workers : WorkerBegins(w) /\ UNCHANGED notParallelVars
    \/ \E w \in DOMAIN workers : WorkerSkips(w) /\ UNCHANGED notParallelVars
    \/ \E w \in DOMAIN workers : WorkerRaises(w) /\ UNCHANGED notParallelVars
    \/ \E w \in DOMAIN workers : WorkerScores(w) /\ UNCHANGED notParallelVars
    \/ \E w \in DOMAIN workers : WorkerEnds(w) /\ UNCHANGED notParallelVars
    \/ Collect /\ UNCHANGED notParallelVars
    \/ CollectRaises /\ UNCHANGED notParallelVars
    \/ ParallelReturn /\ UNCHANGED notParallelVars

SpecParallel == InitParallel /\ [][NextParallel]_vars

----------------------------------------------------------------------------
(* is_valid_filename, called on its own *)

FilenameChars == WindowsIllegal \cup {NUL, "a", ".", "_"}

Str_a_slash_b_txt == <<"a", "/", "b", ".", "t", "x", "t">>
Str_a_lt_b_txt    == <<"a", "<", "b", ".", "t", "x", "t">>
Str_ok_name_txt   == <<"o", "k", "_", "n", "a", "m", "e", ".", "t", "x", "t">>

Filenames == SeqsUpTo(FilenameChars, MaxNameLen)
                \cup {Str_a_slash_b_txt, Str_a_lt_b_txt, Str_ok_name_txt}
OsTypes == {"windows", "unix", "macos"}

InitValid ==
    /\ vf_filename \in Filenames
    /\ vf_os_type \in OsTypes
    /\ vf_result = None
    /\ NoParallelCall
    /\ NoMatchCall /\ NoStemCall /\ NoNormalizeCall /\ NoScoreCall /\ NoNamesCall
    /\ NoLimiterCall /\ NoChecksumCall

CallIsValidFilename ==
    /\ vf_result = None
    /\ vf_result' = Some(is_valid_filename(vf_filename, vf_os_type))
    /\ UNCHANGED <<vf_filename, vf_os_type>>

NextValid ==
    CallIsValidFilename /\ UNCHANGED <<workerVars, matchVars, stemVars, normVars, scoreVars, namesVars, limiterVars, checksumVars>>

SpecValid == InitValid /\ [][NextValid]_vars

----------------------------------------------------------------------------
(* remove_extension, called on its own *)

StemChars == {"a", "b", ".", "-"}
StemFilenames == SeqsUpTo(StemChars, MaxStrLen)

InitStem ==
    /\ re_filename \in StemFilenames
    /\ re_result = None
    /\ NoParallelCall
    /\ NoMatchCall /\ NoValidCall /\ NoNormalizeCall /\ NoScoreCall /\ NoNamesCall
    /\ NoLimiterCall /\ NoChecksumCall

CallRemoveExtension ==
    /\ re_result = None
    /\ re_result' = Some(remove_extension(re_filename))
    /\ UNCHANGED re_filename

NextStem ==
    CallRemoveExtension /\ UNCHANGED <<workerVars, matchVars, validVars, normVars, scoreVars, namesVars, limiterVars, checksumVars>>

SpecStem == InitStem /\ [][NextStem]_vars

----------------------------------------------------------------------------
(* normalize_string, called on its own and then on its own result *)

NormChars == {"A", "É", "a", "b", "1", ".", "-"}
NormStrings == SeqsUpTo(NormChars, MaxStrLen)
NormPatterns == ClassPatterns \cup {LiteralPattern}

InitNormalize ==
    /\ ns_s \in NormStrings
    /\ ns_filter_pattern \in NormPatterns
    /\ ns_result = None
    /\ ns_again = None
    /\ NoParallelCall
    /\ NoMatchCall /\ NoValidCall /\ NoStemCall /\ NoScoreCall /\ NoNamesCall
    /\ NoLimiterCall /\ NoChecksumCall

CallNormalizeString ==
    /\ ns_result = None
    /\ ns_result' = Some(normalize_string(ns_s, ns_filter_pattern))
    /\ UNCHANGED <<ns_s, ns_filter_pattern, ns_again>>

CallNormalizeStringAgain ==
    /\ ns_result # None
    /\ ns_again = None
    /\ ns_again' = Some(normalize_string(ns_result[1], ns_filter_pattern))
    /\ UNCHANGED <<ns_s, ns_filter_pattern, ns_result>>

NextNormalize ==
    \/ CallNormalizeString
            /\ UNCHANGED <<workerVars, matchVars, validVars, stemVars, scoreVars, namesVars, limiterVars, checksumVars>>
    \/ CallNormalizeStringAgain
            /\ UNCHANGED <<workerVars, matchVars, validVars, stemVars, scoreVars, namesVars, limiterVars, checksumVars>>

SpecNormalize == InitNormalize /\ [][NextNormalize]_vars

----------------------------------------------------------------------------
(* get_score, called on its own *)

ScoreChars == {"a", "b"}
ScoreStrings == SeqsUpTo(ScoreChars, MaxStrLen)

InitScore ==
    /\ gs_library \in Libraries
    /\ gs_match_method \in Methods
    /\ gs_normalized_name \in ScoreStrings
    /\ gs_normalized_target \in ScoreStrings
    /\ gs_result = None
    /\ NoParallelCall
    /\ NoMatchCall /\ NoValidCall /\ NoStemCall /\ NoNormalizeCall /\ NoNamesCall
    /\ NoLimiterCall /\ NoChecksumCall

\* the call raises ValueError (l.273-276)
GetScoreRaises ==
    /\ gs_result = None
    /\ get_score_raises(gs_library, gs_match_method)
    /\ gs_result' = <<"raised", "ValueError">>
    /\ UNCHANGED <<gs_library, gs_match_method, gs_normalized_name, gs_normalized_target>>

\* the call returns (l.278-295)
GetScoreReturns ==
    /\ gs_result = None
    /\ ~get_score_raises(gs_library, gs_match_method)
    /\ gs_result' = <<"returned", get_score(gs_library, gs_match_method,
                                            gs_normalized_name, gs_normalized_target)>>
    /\ UNCHANGED <<gs_library, gs_match_method, gs_normalized_name, gs_normalized_target>>

NextScore ==
    \/ GetScoreRaises /\ UNCHANGED <<workerVars, matchVars, validVars, stemVars, normVars, namesVars, limiterVars, checksumVars>>
    \/ GetScoreReturns /\ UNCHANGED <<workerVars, matchVars, validVars, stemVars, normVars, namesVars, limiterVars, checksumVars>>

SpecScore == InitScore /\ [][NextScore]_vars

----------------------------------------------------------------------------
(* match_names_to_filenames.  Reading the two files and writing the three
   output files fail when the file system refuses them. *)

\* longest list of lines of either file
MaxLines == 2

\* a < b for two str: by code point, a proper prefix first
RECURSIVE str_lt(_, _)
str_lt(a, b) ==
    IF b = <<>> THEN FALSE
    ELSE IF a = <<>> THEN TRUE
    ELSE IF a[1] # b[1] THEN ord(a[1]) < ord(b[1])
    ELSE str_lt(Tail(a), Tail(b))

\* str.strip(): leading and trailing whitespace removed; the whitespace
\* below 256 is \t \n \x0b \x0c \r, \x1c-\x1f, the space, \x85 and \xa0
Whitespace == {chr(k) : k \in (9..13) \cup (28..32) \cup {133, 160}}
RECURSIVE lstrip(_)
lstrip(line) ==
    IF line # <<>> /\ line[1] \in Whitespace THEN lstrip(Tail(line)) ELSE line
RECURSIVE rstrip(_)
rstrip(line) ==
    IF line # <<>> /\ line[Len(line)] \in Whitespace
    THEN rstrip(SubSeq(line, 1, Len(line) - 1))
    ELSE line
strip(line) == rstrip(lstrip(line))

\* [line.strip() for line in f.readlines()]
stripped_lines(lines) == [k \in 1..Len(lines) |-> strip(lines[k])]

\* the key of the sort with key=lambda x: normalize_string(x['name'])
sort_key_normalized(record) == normalize_string(record.name, DefaultPattern)

\* key=lambda x: x['name']
sort_key(record) == record.name

\* sorted_by_key that keeps one record for each key
RECURSIVE sorted_by_key_unique(_)
sorted_by_key_unique(results) ==
    IF results = <<>> THEN <<>>
    ELSE LET n == Len(results)
             front == sorted_by_key_unique(SubSeq(results, 1, n - 1))
             x == results[n]
             before == Cardinality({k \in 1..Len(front) :
                                      ~str_lt(sort_key(x), sort_key(front[k]))})
         IN  IF \E k \in 1..Len(front) : sort_key(front[k]) = sort_key(x)
             THEN front
             ELSE SubSeq(front, 1, before) \o <<x>>
                    \o SubSeq(front, before + 1, Len(front))

\* list.sort(key=...): ascending and stable; one record is put after the
\* records already placed whose key is not greater than its own
RECURSIVE sorted_by_key(_)
sorted_by_key(results) ==
    IF results = <<>> THEN <<>>
    ELSE LET n == Len(results)
             front == sorted_by_key(SubSeq(results, 1, n - 1))
             x == results[n]
             before == Cardinality({k \in 1..Len(front) :
                                      ~str_lt(sort_key(x), sort_key(front[k]))})
         IN  SubSeq(front, 1, before) \o <<x>> \o SubSeq(front, before + 1, Len(front))

\* string_matching raises ValueError: get_score is reached with a library
\* or a method that is not valid
string_matching_raises(bases, targets) ==
    /\ get_score_raises(library, match_method)
    /\ bases # <<>>
    /\ \E k \in 1..Len(targets) : ~skipped(targets[k], filename_mode)

\* the debug records string_matching hands to the logger (l.221): the
\* skipped targets, once per base name
RECURSIVE string_matching_log(_, _, _)
string_matching_log(bases, targets, n) ==
    IF n > Len(bases) THEN <<>>
    ELSE SelectSeq(targets, LAMBDA t : skipped(t, filename_mode))
            \o string_matching_log(bases, targets, n + 1)

\* the debug records of `if verbose:` (l.354-358)
verbose_log(results, names) ==
    [k \in 1..Len(results) |-> <<"Matched", results[k].name, results[k].matched_name>>]
        \o [k \in 1..Len(names) |-> <<"Unmatched", names[k]>>]

\* the files of `if output_to_file:` (l.360-374): Some(the list of lines)
\* for a file that is written, None for one that is not
written_files(results, names) ==
    [output_matched |-> Some([k \in 1..Len(results) |->
                            <<results[k].name, "->", results[k].matched_name>>]),
     matched_list |-> Some([k \in 1..Len(results) |-> results[k].matched_name]),
     output_unmatched |-> Some(names)]

\* the files written when the n-th of them cannot be opened: the ones before
\* it, whole
written_files_before(results, names, n) ==
    LET all == written_files(results, names)
    IN  [output_matched |-> IF n > 1 THEN all.output_matched ELSE None,
         matched_list |-> IF n > 2 THEN all.matched_list ELSE None,
         output_unmatched |-> None]

NameLines == { <<"a", "\n">>, <<"B", "\n">>, <<chr(31), "b", chr(11), "\n">>, <<"-", "\n">> }
FilenameLines == { <<"a", ".", "x", "\n">>, <<"b", ".", "y", "\n">>, <<"\n">> }

InitNames ==
    /\ mn_name_lines \in SeqsUpTo(NameLines, MaxLines)
    /\ mn_filename_lines \in SeqsUpTo(FilenameLines, MaxLines)
    /\ mn_files_exist \in BOOLEAN
    /\ mn_sort \in BOOLEAN
    /\ mn_verbose \in BOOLEAN
    /\ mn_output_to_file = ~mn_verbose
    /\ mn_result = None
    /\ mn_log = <<>>
    /\ mn_files = None
    /\ library \in {"rapidfuzz", "unknown"}
    \* a refusal of the file system is drawn where the call gets to it
    /\ mn_io \in {io \in [readable : BOOLEAN, unwritable : 0..3] :
                     /\ ~io.readable => mn_files_exist /\ io.unwritable = 0
                     /\ io.unwritable > 0 =>
                            mn_files_exist /\ mn_output_to_file /\ library = "rapidfuzz"}
    /\ match_method = "exact"
    /\ similarity_threshold = 80
    /\ normalization_pattern = DefaultPattern
    /\ filename_mode = TRUE
    /\ base_list = <<>>
    /\ target_list = <<>>
    /\ pc = "idle"
    /\ i = 0
    /\ j = 0
    /\ normalized_name = <<>>
    /\ normalized_target = <<>>
    /\ best_match = None
    /\ highest_score = Rat(0, 1)
    /\ matched_results = <<>>
    /\ unmatched_names = <<>>
    /\ scored = {}
    /\ log = <<>>
    /\ NoParallelCall
    /\ NoValidCall /\ NoStemCall /\ NoNormalizeCall /\ NoScoreCall
    /\ NoLimiterCall /\ NoChecksumCall

\* `raise FileNotFoundError(...)` (l.334-335)
MatchNamesFileNotFound ==
    /\ mn_result = None
    /\ ~mn_files_exist
    /\ mn_result' = <<"raised", "FileNotFoundError">>
    /\ UNCHANGED <<mn_name_lines, mn_filename_lines, mn_files_exist, mn_io, mn_sort,
                   mn_verbose, mn_output_to_file, mn_log, mn_files, matchVars>>

\* both files exist and one cannot be read (a directory, bytes that are not
\* UTF-8): `except Exception as e: raise IOError(...)` (l.337-343)
MatchNamesReadError ==
    /\ mn_result = None
    /\ mn_files_exist
    /\ ~mn_io.readable
    /\ mn_result' = <<"raised", "OSError">>
    /\ UNCHANGED <<mn_name_lines, mn_filename_lines, mn_files_exist, mn_io, mn_sort,
                   mn_verbose, mn_output_to_file, mn_log, mn_files, matchVars>>

\* string_matching raises ValueError, which is not caught (l.345)
MatchNamesValueError ==
    /\ mn_result = None
    /\ mn_files_exist
    /\ mn_io.readable
    /\ string_matching_raises(stripped_lines(mn_name_lines),
                              stripped_lines(mn_filename_lines))
    /\ mn_result' = <<"raised", "ValueError">>
    /\ log' = log \o SelectSeq(SubSeq(stripped_lines(mn_filename_lines), 1,
                                CHOOSE k \in 1..Len(mn_filename_lines) :
                                    /\ ~skipped(stripped_lines(mn_filename_lines)[k],
                                                filename_mode)
                                    /\ \A m \in 1..(k - 1) :
                                          skipped(stripped_lines(mn_filename_lines)[m],
                                                  filename_mode)),
                                LAMBDA t : skipped(t, filename_mode))
    /\ UNCHANGED <<mn_name_lines, mn_filename_lines, mn_files_exist, mn_io, mn_sort,
                   mn_verbose, mn_output_to_file, mn_log, mn_files>>
    /\ UNCHANGED <<base_list, target_list, library, match_method, similarity_threshold,
                   normalization_pattern, filename_mode, pc, i, j, normalized_name,
                   best_match, highest_score, matched_results, unmatched_names,
                   scored, normalized_target>>

\* what follows string_matching (l.351-376), given the two lists it found:
\* the sort, the debug records, and the output files up to the first one
\* that cannot be opened
names_results(found) == IF mn_sort THEN sorted_by_key(found[1]) ELSE found[1]
write_fails == mn_output_to_file /\ mn_io.unwritable > 0
AfterStringMatching(found, results) ==
    /\ mn_result' = IF write_fails THEN <<"raised", "OSError">>
                     ELSE <<"returned", <<results, found[2]>>>>
    /\ mn_log' = IF mn_verbose THEN verbose_log(results, found[2]) ELSE mn_log
    /\ mn_files' = IF ~mn_output_to_file THEN mn_files
                    ELSE IF write_fails
                    THEN written_files_before(results, found[2], mn_io.unwritable)
                    ELSE written_files(results, found[2])

\* what follows string_matching's return of found (l.351-376)
MatchNamesEnds(found) == AfterStringMatching(found, names_results(found))

\* the two files are read and string_matching does not raise (l.338-349)
MatchingDone(name_list, filename_list) ==
    /\ mn_result = None
    /\ mn_files_exist
    /\ mn_io.readable
    /\ ~string_matching_raises(name_list, filename_list)
    /\ log' = log \o string_matching_log(name_list, filename_list, 1)
    /\ UNCHANGED <<mn_name_lines, mn_filename_lines, mn_files_exist, mn_io, mn_sort,
                   mn_verbose, mn_output_to_file>>
    /\ UNCHANGED <<base_list, target_list, library, match_method, similarity_threshold,
                   normalization_pattern, filename_mode, pc, i, j, normalized_name,
                   best_match, highest_score, matched_results, unmatched_names,
                   scored, normalized_target>>

\* the rest of the call (l.345-376): it returns the two lists, or an output
\* file cannot be opened: `except IOError as e: raise IOError(...)`
\* (l.373-374), after the matching, the sort and the debug records
MatchNamesFinishes(name_list, filename_list) ==
    /\ MatchingDone(name_list, filename_list)
    /\ MatchNamesEnds(string_matching(name_list, filename_list, 1, <<>>, <<>>))

MatchNamesWriteError ==
    /\ write_fails
    /\ MatchNamesFinishes(stripped_lines(mn_name_lines),
                          stripped_lines(mn_filename_lines))

\* the call returns (l.338-376)
MatchNamesReturns ==
    /\ ~write_fails
    /\ MatchNamesFinishes(stripped_lines(mn_name_lines),
                          stripped_lines(mn_filename_lines))

NextNames ==
    \/ MatchNamesFileNotFound /\ UNCHANGED <<workerVars, validVars, stemVars, normVars, scoreVars, limiterVars, checksumVars>>
    \/ MatchNamesReadError /\ UNCHANGED <<workerVars, validVars, stemVars, normVars, scoreVars, limiterVars, checksumVars>>
    \/ MatchNamesValueError /\ UNCHANGED <<workerVars, validVars, stemVars, normVars, scoreVars, limiterVars, checksumVars>>
    \/ MatchNamesWriteError /\ UNCHANGED <<workerVars, validVars, stemVars, normVars, scoreVars, limiterVars, checksumVars>>
    \/ MatchNamesReturns /\ UNCHANGED <<workerVars, validVars, stemVars, normVars, scoreVars, limiterVars, checksumVars>>

SpecNames == InitNames /\ [][NextNames]_vars

----------------------------------------------------------------------------
(* RateLimiter (helper.py l.96-127; carmac_tools.py l.103-134 is the same
   class).  Time is counted in whole ticks; the clock of the model stops at
   MaxTime, and a sleep that is to last beyond MaxTime does not end.  One
   caller at a time uses the limiter: the class takes no lock and the
   repository starts no thread. *)

\* the last tick of the clock
MaxTime == 6
\* the number of wait_for_request_slot calls
MaxCalls == 3

MaxRequestsValues == {1, 2}
IntervalValues == {1, 2}

\* clear_out with `current_time - self.timestamps[0] >= self.interval_seconds`
RECURSIVE clear_out_ge(_, _, _)
clear_out_ge(timestamps, current_time, interval_seconds) ==
    IF timestamps # <<>> /\ current_time - timestamps[1] >= interval_seconds
    THEN clear_out_ge(Tail(timestamps), current_time, interval_seconds)
    ELSE timestamps

\* `while self.timestamps and current_time - self.timestamps[0] >
\*  self.interval_seconds: self.timestamps.popleft()`
RECURSIVE clear_out(_, _, _)
clear_out(timestamps, current_time, interval_seconds) ==
    IF timestamps # <<>> /\ current_time - timestamps[1] > interval_seconds
    THEN clear_out(Tail(timestamps), current_time, interval_seconds)
    ELSE timestamps

\* the state after RateLimiter(max_requests, interval_seconds)
InitLimiter ==
    /\ rl_max_requests \in MaxRequestsValues
    /\ rl_interval_seconds \in IntervalValues
    /\ rl_timestamps = <<>>
    /\ rl_time = 0
    /\ rl_pc = "idle"
    /\ rl_current_time = 0
    /\ rl_wake = 0
    /\ rl_granted = <<>>
    /\ rl_call = [timestamps |-> <<>>, time |-> 0, granted |-> 0, slept |-> FALSE]
    /\ NoParallelCall
    /\ NoMatchCall /\ NoValidCall /\ NoStemCall /\ NoNormalizeCall /\ NoScoreCall
    /\ NoNamesCall /\ NoChecksumCall

\* the clock advances by one tick, whatever the limiter does
Tick ==
    /\ rl_pc # "none"
    /\ rl_time < MaxTime
    /\ rl_time' = rl_time + 1
    /\ UNCHANGED <<rl_max_requests, rl_interval_seconds, rl_timestamps, rl_pc,
                   rl_current_time, rl_wake, rl_granted, rl_call>>

\* wait_for_request_slot is called: it reads the clock and clears out the
\* timestamps outside the current interval
WaitForRequestSlot ==
    /\ rl_pc = "idle"
    /\ Len(rl_granted) < MaxCalls
    /\ rl_current_time' = rl_time
    /\ rl_timestamps' = clear_out(rl_timestamps, rl_time, rl_interval_seconds)
    /\ rl_call' = [timestamps |-> rl_timestamps, time |-> rl_time,
                   granted |-> Len(rl_granted), slept |-> FALSE]
    /\ rl_pc' = "waiting"
    /\ UNCHANGED <<rl_max_requests, rl_interval_seconds, rl_time, rl_wake, rl_granted>>

\* `while len(self.timestamps) >= self.max_requests:` finds the queue full:
\* time_to_wait is worked out from the time last read and time.sleep is
\* entered (l.120-122); it returns no sooner than time_to_wait from now
SleepForSlot ==
    /\ rl_pc = "waiting"
    /\ Len(rl_timestamps) >= rl_max_requests
    /\ LET time_to_wait == rl_interval_seconds - (rl_current_time - rl_timestamps[1])
       IN  rl_wake' = rl_time + time_to_wait
    /\ rl_pc' = "sleeping"
    /\ rl_call' = [rl_call EXCEPT !.slept = TRUE]
    /\ UNCHANGED <<rl_max_requests, rl_interval_seconds, rl_timestamps, rl_time,
                   rl_current_time, rl_granted>>

\* WakeUp that does not clear out the timestamps after the sleep
WakeUp_no_clear ==
    /\ rl_pc = "sleeping"
    /\ rl_time >= rl_wake
    /\ rl_current_time' = rl_time
    /\ rl_timestamps' = rl_timestamps
    /\ rl_pc' = "waiting"
    /\ UNCHANGED <<rl_max_requests, rl_interval_seconds, rl_time, rl_wake,
                   rl_granted, rl_call>>

\* time.sleep returns, at any time from rl_wake on; the clock is read again
\* and the timestamps are cleared out (l.122-125), back to the test of the
\* loop
WakeUp ==
    /\ rl_pc = "sleeping"
    /\ rl_time >= rl_wake
    /\ rl_current_time' = rl_time
    /\ rl_timestamps' = clear_out(rl_timestamps, rl_time, rl_interval_seconds)
    /\ rl_pc' = "waiting"
    /\ UNCHANGED <<rl_max_requests, rl_interval_seconds, rl_time, rl_wake,
                   rl_granted, rl_call>>

\* the loop is over: `self.timestamps.append(current_time)` and the call
\* returns
RecordTimestamp ==
    /\ rl_pc = "waiting"
    /\ Len(rl_timestamps) < rl_max_requests
    /\ rl_timestamps' = Append(rl_timestamps, rl_current_time)
    /\ rl_granted' = Append(rl_granted, rl_current_time)
    /\ rl_pc' = "idle"
    /\ UNCHANGED <<rl_max_requests, rl_interval_seconds, rl_time, rl_current_time,
                   rl_wake, rl_call>>

notLimiterVars == <<workerVars, matchVars, validVars, stemVars, normVars, scoreVars, namesVars,
                    checksumVars>>

LimiterTick == Tick /\ UNCHANGED notLimiterVars
LimiterCall == WaitForRequestSlot /\ UNCHANGED notLimiterVars
LimiterSleep == SleepForSlot /\ UNCHANGED notLimiterVars
LimiterWake == WakeUp /\ UNCHANGED notLimiterVars
LimiterReturn == RecordTimestamp /\ UNCHANGED notLimiterVars

NextLimiter ==
    \/ LimiterTick
    \/ LimiterCall
    \/ LimiterSleep
    \/ LimiterWake
    \/ LimiterReturn

SpecLimiter == InitLimiter /\ [][NextLimiter]_vars

\* the clock keeps advancing and the thread in wait_for_request_slot keeps
\* running
SpecLimiterLive ==
    /\ SpecLimiter
    /\ WF_vars(LimiterTick)
    /\ WF_vars(LimiterSleep)
    /\ WF_vars(LimiterWake)
    /\ WF_vars(LimiterReturn)

----------------------------------------------------------------------------
(* calculate_checksum (dat_tools.py l.189-241) *)

\* the length of the files of the model, in bytes
MaxBytes == 2
\* `file.read(4096)`
ChunkSize == 4096

HexDigits == <<"0","1","2","3","4","5","6","7","8","9","a","b","c","d","e","f">>
HexValue(d) == (CHOOSE k \in 1..16 : HexDigits[k] = d) - 1

\* 32-bit values are sequences of 32 bits, the lowest first; Bits is used
\* for n < 2^30
Bits(n, w) == [k \in 1..w |-> IF k > 30 THEN 0 ELSE (n \div (2 ^ (k - 1))) % 2]
FromHex(digits) ==
    [k \in 1..(4 * Len(digits)) |->
        Bits(HexValue(digits[Len(digits) - ((k - 1) \div 4)]), 4)[((k - 1) % 4) + 1]]
Xor(a, b) == [k \in 1..Len(a) |-> (a[k] + b[k]) % 2] @@ <<>>
ShiftRight(a) == [k \in 1..Len(a) |-> IF k < Len(a) THEN a[k + 1] ELSE 0] @@ <<>>
\* 0xEDB88320 and 0xFFFFFFFF
Polynomial == FromHex(<<"e","d","b","8","8","3","2","0">>)
Ones == [k \in 1..32 |-> 1]

RECURSIVE crc_bits(_, _)
crc_bits(c, n) ==
    IF n = 0 THEN c
    ELSE crc_bits(IF c[1] = 1 THEN Xor(ShiftRight(c), Polynomial) ELSE ShiftRight(c),
                  n - 1)
RECURSIVE crc_bytes(_, _, _)
crc_bytes(c, data, k) ==
    IF k > Len(data) THEN c
    ELSE crc_bytes(crc_bits(Xor(c, Bits(data[k], 32)), 8), data, k + 1)
\* zlib.crc32(chunk, crc_value)
zlib_crc32(chunk, crc_value) == Xor(crc_bytes(Xor(crc_value, Ones), chunk, 1), Ones)

\* format(value, '08x')
format_08x(value) ==
    [d \in 1..8 |->
        LET low == 4 * (8 - d)
        IN  HexDigits[1 + value[low + 1] + 2 * value[low + 2] + 4 * value[low + 3]
                        + 8 * value[low + 4]]]

\* `iter(lambda: file.read(4096), b"")` the chunks of the file
RECURSIVE chunks(_)
chunks(content) ==
    IF content = <<>> THEN <<>>
    ELSE LET n == Min(ChunkSize, Len(content))
         IN  <<SubSeq(content, 1, n)>> \o chunks(SubSeq(content, n + 1, Len(content)))

RECURSIVE crc_of_chunks(_, _, _)
crc_of_chunks(cs, k, crc_value) ==
    IF k > Len(cs) THEN crc_value
    ELSE crc_of_chunks(cs, k + 1, zlib_crc32(cs[k], crc_value))

RECURSIVE flatten(_)
flatten(cs) == IF cs = <<>> THEN <<>> ELSE Head(cs) \o flatten(Tail(cs))

(* hashlib.md5 and hashlib.sha1.  A 32-bit word is <<high, low>>, its two
   halves of 16 bits. *)

RECURSIVE And16(_, _)
And16(x, y) ==
    IF x = 0 \/ y = 0 THEN 0 ELSE (x % 2) * (y % 2) + 2 * And16(x \div 2, y \div 2)
RECURSIVE Xor16(_, _)
Xor16(x, y) ==
    IF x = 0 /\ y = 0 THEN 0 ELSE ((x + y) % 2) + 2 * Xor16(x \div 2, y \div 2)

AndW(a, b) == <<And16(a[1], b[1]), And16(a[2], b[2])>>
XorW(a, b) == <<Xor16(a[1], b[1]), Xor16(a[2], b[2])>>
OrW(a, b) == <<a[1] + b[1] - And16(a[1], b[1]), a[2] + b[2] - And16(a[2], b[2])>>
NotW(a) == <<65535 - a[1], 65535 - a[2]>>
\* a + b modulo 2^32
AddW(a, b) ==
    LET low == a[2] + b[2]
    IN  <<(a[1] + b[1] + (low \div 65536)) % 65536, low % 65536>>
\* a rotated left by n digits, 0 <= n < 32
RotlW(a, n) ==
    LET w == IF n >= 16 THEN <<a[2], a[1]>> ELSE a
        k == n % 16
    IN  IF k = 0 THEN w
        ELSE <<((w[1] * 2^k) % 65536) + (w[2] \div 2^(16 - k)),
               ((w[2] * 2^k) % 65536) + (w[1] \div 2^(16 - k))>>

\* the k lowest bytes of n, the lowest first
RECURSIVE LengthBytes(_, _)
LengthBytes(n, k) == IF k = 0 THEN <<>> ELSE <<n % 256>> \o LengthBytes(n \div 256, k - 1)
RECURSIVE Reverse(_)
Reverse(seq) == IF seq = <<>> THEN <<>> ELSE Reverse(Tail(seq)) \o <<Head(seq)>>
Zeros(k) == [n \in 1..k |-> 0]

\* the message padded to whole blocks of 64 bytes: the byte 0x80, zeros,
\* and the length in bits on 8 bytes
Padded(message, length_field) ==
    message \o <<128>> \o Zeros((119 - (Len(message) % 64)) % 64) \o length_field

\* two hexadecimal digits for a byte
HexByte(b) == <<HexDigits[(b \div 16) + 1], HexDigits[(b % 16) + 1]>>
\* the digits of a word, its bytes from the highest or from the lowest
HexWordBE(a) ==
    HexByte(a[1] \div 256) \o HexByte(a[1] % 256) \o HexByte(a[2] \div 256) \o HexByte(a[2] % 256)
HexWordLE(a) ==
    HexByte(a[2] % 256) \o HexByte(a[2] \div 256) \o HexByte(a[1] % 256) \o HexByte(a[1] \div 256)

\* MD5 (RFC 1321): floor(abs(sin(i + 1)) * 2^32) and the rotations
Md5K ==
    <<<<55146, 42104>>, <<59591, 46934>>, <<9248, 28891>>, <<49597, 52974>>,
      <<62844, 4015>>, <<18311, 50730>>, <<43056, 17939>>, <<64838, 38145>>,
      <<27008, 39128>>, <<35652, 63407>>, <<65535, 23473>>, <<35164, 55230>>,
      <<27536, 4386>>, <<64920, 29075>>, <<42617, 17294>>, <<18868, 2081>>,
      <<63006, 9570>>, <<49216, 45888>>, <<9822, 23121>>, <<59830, 51114>>,
      <<54831, 4189>>, <<580, 5203>>, <<55457, 59009>>, <<59347, 64456>>,
      <<8673, 52710>>, <<49975, 2006>>, <<62677, 3463>>, <<17754, 5357>>,
      <<43491, 59653>>, <<64751, 41976>>, <<26479, 729>>, <<36138, 19594>>,
      <<65530, 14658>>, <<34673, 63105>>, <<28061, 24866>>, <<64997, 14348>>,
      <<42174, 59972>>, <<19422, 53161>>, <<63163, 19296>>, <<48831, 48240>>,
      <<10395, 32454>>, <<60065, 10234>>, <<54511, 12421>>, <<1160, 7429>>,
      <<55764, 53305>>, <<59099, 39397>>, <<8098, 31992>>, <<50348, 22117>>,
      <<62505, 8772>>, <<17194, 65431>>, <<43924, 9127>>, <<64659, 41017>>,
      <<25947, 22979>>, <<36620, 52370>>, <<65519, 62589>>, <<34180, 24017>>,
      <<28584, 32335>>, <<65068, 59104>>, <<41729, 17172>>, <<19976, 4513>>,
      <<63315, 32386>>, <<48442, 62005>>, <<10967, 53947>>, <<60294, 54161>>>>
Md5S ==
    <<7, 12, 17, 22, 7, 12, 17, 22, 7, 12, 17, 22, 7, 12, 17, 22,
      5, 9, 14, 20, 5, 9, 14, 20, 5, 9, 14, 20, 5, 9, 14, 20,
      4, 11, 16, 23, 4, 11, 16, 23, 4, 11, 16, 23, 4, 11, 16, 23,
      6, 10, 15, 21, 6, 10, 15, 21, 6, 10, 15, 21, 6, 10, 15, 21>>
Md5Init == <<<<26437, 8961>>, <<61389, 43913>>, <<39098, 56574>>, <<4146, 21622>>>>

\* the 16 words of block n (from 0) of the padded message, low byte first
Md5Word(data, n, k) ==
    LET at == 64 * n + 4 * k
    IN  <<data[at + 4] * 256 + data[at + 3], data[at + 2] * 256 + data[at + 1]>>

\* the rounds r .. last - 1 of block n
RECURSIVE Md5Rounds(_, _, _, _, _)
Md5Rounds(data, n, r, last, st) ==
    IF r = last THEN st
    ELSE LET a == st[1]
             b == st[2]
             c == st[3]
             d == st[4]
             f == IF r < 16 THEN OrW(AndW(b, c), AndW(NotW(b), d))
                  ELSE IF r < 32 THEN OrW(AndW(d, b), AndW(NotW(d), c))
                  ELSE IF r < 48 THEN XorW(XorW(b, c), d)
                  ELSE XorW(c, OrW(b, NotW(d)))
             g == IF r < 16 THEN r
                  ELSE IF r < 32 THEN (5 * r + 1) % 16
                  ELSE IF r < 48 THEN (3 * r + 5) % 16
                  ELSE (7 * r) % 16
             sum == AddW(AddW(f, a), AddW(Md5K[r + 1], Md5Word(data, n, g)))
             next == <<d, AddW(b, RotlW(sum, Md5S[r + 1])), b, c>>
         IN  IF Len(next) = 4 THEN Md5Rounds(data, n, r + 1, last, next) ELSE st

RECURSIVE Md5Blocks(_, _, _)
Md5Blocks(data, n, st) ==
    IF 64 * n >= Len(data) THEN st
    ELSE LET out == Md5Rounds(data, n, 48, 64, Md5Rounds(data, n, 32, 48,
                        Md5Rounds(data, n, 16, 32, Md5Rounds(data, n, 0, 16, st))))
             next == [k \in 1..4 |-> AddW(st[k], out[k])] @@ <<>>
         IN  IF Len(next) = 4 THEN Md5Blocks(data, n + 1, next) ELSE st

\* hashlib.md5(message).hexdigest()
md5_hexdigest(message) ==
    LET st == Md5Blocks(Padded(message, LengthBytes(8 * Len(message), 8)), 0, Md5Init)
    IN  HexWordLE(st[1]) \o HexWordLE(st[2]) \o HexWordLE(st[3]) \o HexWordLE(st[4])

\* SHA-1 (FIPS 180-4)
Sha1Init == <<<<26437, 8961>>, <<61389, 43913>>, <<39098, 56574>>, <<4146, 21622>>, <<50130, 57840>>>>
Sha1K == <<<<23170, 31129>>, <<28377, 60321>>, <<36635, 48348>>, <<51810, 49622>>>>

\* the words of the schedule of block n, high byte first, up to `last` of
\* them
RECURSIVE Sha1Schedule(_, _, _, _)
Sha1Schedule(data, n, last, ws) ==
    LET t == Len(ws)
        at == 64 * n + 4 * t
        word == IF t < 16
                THEN <<data[at + 1] * 256 + data[at + 2], data[at + 3] * 256 + data[at + 4]>>
                ELSE RotlW(XorW(XorW(ws[t - 2], ws[t - 7]), XorW(ws[t - 13], ws[t - 15])), 1)
    IN  IF t = last THEN ws ELSE Sha1Schedule(data, n, last, Append(ws, word))

\* the rounds t .. last - 1
RECURSIVE Sha1Rounds(_, _, _, _)
Sha1Rounds(ws, t, last, st) ==
    IF t = last THEN st
    ELSE LET a == st[1]
             b == st[2]
             c == st[3]
             d == st[4]
             e == st[5]
             f == IF t < 20 THEN OrW(AndW(b, c), AndW(NotW(b), d))
                  ELSE IF t < 40 THEN XorW(XorW(b, c), d)
                  ELSE IF t < 60 THEN OrW(OrW(AndW(b, c), AndW(b, d)), AndW(c, d))
                  ELSE XorW(XorW(b, c), d)
             temp == AddW(AddW(RotlW(a, 5), f),
                          AddW(AddW(e, Sha1K[(t \div 20) + 1]), ws[t + 1]))
             next == <<temp, a, RotlW(b, 30), c, d>>
         IN  IF Len(next) = 5 THEN Sha1Rounds(ws, t + 1, last, next) ELSE st

RECURSIVE Sha1Blocks(_, _, _)
Sha1Blocks(data, n, st) ==
    IF 64 * n >= Len(data) THEN st
    ELSE LET ws == Sha1Schedule(data, n, 80, Sha1Schedule(data, n, 64,
                       Sha1Schedule(data, n, 48, Sha1Schedule(data, n, 32,
                       Sha1Schedule(data, n, 16, <<>>)))))
             out == Sha1Rounds(ws, 60, 80, Sha1Rounds(ws, 40, 60,
                        Sha1Rounds(ws, 20, 40, Sha1Rounds(ws, 0, 20, st))))
             next == [k \in 1..5 |-> AddW(st[k], out[k])] @@ <<>>
         IN  IF Len(next) = 5 THEN Sha1Blocks(data, n + 1, next) ELSE st

\* hashlib.sha1(message).hexdigest()
sha1_hexdigest(message) ==
    LET st == Sha1Blocks(Padded(message, Reverse(LengthBytes(8 * Len(message), 8))),
                         0, Sha1Init)
    IN  HexWordBE(st[1]) \o HexWordBE(st[2]) \o HexWordBE(st[3]) \o HexWordBE(st[4])
            \o HexWordBE(st[5])

\* hasher.hexdigest() after hasher.update(chunk) for every chunk: the digest
\* of the bytes put end to end
hexdigest(algorithm, cs) ==
    IF algorithm = "md5" THEN md5_hexdigest(flatten(cs)) ELSE sha1_hexdigest(flatten(cs))

Str_crc  == <<"c", "r", "c">>
Str_md5  == <<"m", "d", "5">>
Str_sha1 == <<"s", "h", "a", "1">>

\* the file system at file_path, as open() and read() meet it (l.212-231):
\* no file (FileNotFoundError)
NoFile == <<"missing", <<>>>>
\* a directory (open() fails with IsADirectoryError, an OSError)
Directory == <<"directory", <<>>>>
\* no file, and open() fails with an OSError that is not FileNotFoundError:
\* a path under a regular file (NotADirectoryError), a name too long, a
\* symbolic link to itself
Unreachable == <<"unreachable", <<>>>>
\* a path open() refuses with a ValueError: it holds a NUL character
InvalidPath == <<"invalid", <<>>>>
\* a file with its bytes
RegularFile(content) == <<"file", content>>
\* a file the caller may not read (open() fails with PermissionError, an
\* OSError)
UnreadableFile(content) == <<"unreadable", content>>
\* a file that opens and whose read() fails with an OSError
FailingFile == <<"failing", <<>>>>

\* the branches of l.213-231 that return the checksum
checksum_of(content, checksum_type) ==
    LET kind == lower(checksum_type)
    IN  IF kind = Str_crc
        THEN format_08x(crc_of_chunks(chunks(content), 1, Bits(0, 32)))
        ELSE IF kind = Str_md5 THEN hexdigest("md5", chunks(content))
        ELSE hexdigest("sha1", chunks(content))

\* calculate_checksum: open() comes first (l.212); its FileNotFoundError is
\* raised again (l.235-236), every other OSError of open() and of read() as
\* an OSError (l.237-238); the ValueError of open() and the ValueError of
\* l.233 are raised inside the try and caught by `except Exception`
\* (l.239-241), which prints and returns None
calculate_checksum(file, checksum_type) ==
    IF file = NoFile THEN <<"raised", "FileNotFoundError">>
    ELSE IF file[1] \in {"directory", "unreachable", "unreadable"}
    THEN <<"raised", "OSError">>
    ELSE IF file = InvalidPath THEN <<"returned", None>>
    ELSE IF lower(checksum_type) \notin {Str_crc, Str_md5, Str_sha1}
    THEN <<"returned", None>>
    ELSE IF file = FailingFile THEN <<"raised", "OSError">>
    ELSE <<"returned", checksum_of(file[2], checksum_type)>>

ByteValues == {0, 97, 255}
Files ==
    {NoFile, Directory, Unreachable, InvalidPath, FailingFile}
        \cup {RegularFile(c) : c \in SeqsUpTo(ByteValues, MaxBytes)}
        \cup {UnreadableFile(c) : c \in SeqsUpTo(ByteValues, MaxBytes)}
ChecksumTypes == {Str_crc, Str_md5, Str_sha1, <<"C", "R", "C">>, <<"S", "h", "a", "1">>,
                  <<"s", "h", "a", "2", "5", "6">>, <<>>}

InitChecksum ==
    /\ cc_file \in Files
    /\ cc_checksum_type \in ChecksumTypes
    /\ cc_result = None
    /\ NoParallelCall
    /\ NoMatchCall /\ NoValidCall /\ NoStemCall /\ NoNormalizeCall /\ NoScoreCall
    /\ NoNamesCall /\ NoLimiterCall

notChecksumVars == <<workerVars, matchVars, validVars, stemVars, normVars, scoreVars, namesVars,
                     limiterVars>>

\* the call is over, with the outcome given
CalculateChecksumEnds(outcome) ==
    /\ cc_result = None
    /\ cc_result' = outcome
    /\ UNCHANGED <<cc_file, cc_checksum_type>>

\* open() or read() fails with an OSError (l.212-231)
checksum_raises(file, checksum_type) ==
    \/ file[1] \in {"missing", "directory", "unreachable", "unreadable"}
    \/ file = FailingFile /\ lower(checksum_type) \in {Str_crc, Str_md5, Str_sha1}

\* the call ends by raising (l.235-238)
CalculateChecksumRaises ==
    /\ checksum_raises(cc_file, cc_checksum_type)
    /\ CalculateChecksumEnds(calculate_checksum(cc_file, cc_checksum_type))

\* the call returns: the checksum (l.213-231), or None (l.239-241)
CalculateChecksumReturns ==
    /\ ~checksum_raises(cc_file, cc_checksum_type)
    /\ CalculateChecksumEnds(calculate_checksum(cc_file, cc_checksum_type))

NextChecksum ==
    \/ CalculateChecksumRaises /\ UNCHANGED notChecksumVars
    \/ CalculateChecksumReturns /\ UNCHANGED notChecksumVars

SpecChecksum == InitChecksum /\ [][NextChecksum]_vars

----------------------------------------------------------------------------
(* What the claims speak about *)

Range(seq) == {seq[k] : k \in 1..Len(seq)}
Count(seq, x) == Cardinality({k \in 1..Len(seq) : seq[k] = x})

ValidConfiguration == ~get_score_raises(library, match_method)

\* the positions of base_list whose inner loop is over
Processed == IF pc \in {"inner", "raised"} THEN 1..(i - 1) ELSE 1..i

\* the base names of the match records, in order
MatchedBaseNames == [r \in 1..Len(matched_results) |-> matched_results[r].name]
InMatches(b) == \E r \in 1..Len(matched_results) : matched_results[r].name = b
InUnmatched(b) == \E u \in 1..Len(unmatched_names) : unmatched_names[u] = b
\* the names the records of base name b give as its match
MatchedNamesOf(b) ==
    {matched_results[r].matched_name :
        r \in {q \in 1..Len(matched_results) : matched_results[q].name = b}}

\* the targets get_score has returned a score for, for base position n
ScoredFor(n) == {k \in 1..Len(target_list) : <<n, k>> \in scored}

\* the score of a base name against a target, both normalized as the call
\* normalizes them, for every valid configuration (computed once)
ScoreTable ==
    [c \in valid_libraries \X valid_methods \X BOOLEAN \X Patterns
            \X BaseNames \X TargetNames |->
        get_score(c[1], c[2], normalize_string(c[5], c[4]),
                  normalized_target_of(c[6], c[3], c[4]))] @@ <<>>
ScoreOfNames(base_name, target_name) ==
    ScoreTable[<<library, match_method, filename_mode, normalization_pattern,
                 base_name, target_name>>]
ScoreOf(n, k) == ScoreOfNames(base_list[n], target_list[k])

Threshold == Rat(similarity_threshold, 1)
Zero == Rat(0, 1)

\* the first of the targets in S (positions) with the highest score for n
FirstArgMax(n, S) ==
    LET sc == [k \in S |-> ScoreOf(n, k)]
    IN  CHOOSE k \in S :
            /\ \A m \in S : RatGE(sc[k], sc[m])
            /\ \A m \in S : m < k => RatGT(sc[k], sc[m])
HighestScore(n) == ScoreOf(n, FirstArgMax(n, ScoredFor(n)))
FirstBest(n) == target_list[FirstArgMax(n, ScoredFor(n))]
\* every target with the highest score for n
ArgMaxNames(n) ==
    LET top == HighestScore(n)
    IN  {target_list[k] : k \in {m \in ScoredFor(n) : RatGE(ScoreOf(n, m), top)}}

\* the rule of the specification (section 4.3): the first target with the
\* highest score among the scored targets is the best when that score is
\* greater than the initial best_score of 0 (steps 2 and 3d) and at least
\* the threshold (step 3d); step 4 accepts whatever best is not None
RuleAccepts(n) ==
    LET S == ScoredFor(n)
        first == FirstArgMax(n, S)
    IN  /\ S # {}
        /\ RatGT(ScoreOf(n, first), Zero)
        /\ RatGE(ScoreOf(n, first), Threshold)

----------------------------------------------------------------------------
(* C1: match partitions base_list: the two result lists together hold every
   base name taken so far exactly as often as base_list does, no name is in
   both, and on return len(matches) + len(unmatched) = len(base_list). *)
C1_Partition ==
    pc \in {"outer", "done"} =>
        /\ Len(matched_results) + Len(unmatched_names) = i
        /\ pc = "done" =>
              Len(matched_results) + Len(unmatched_names) = Len(base_list)
        /\ \A b \in BaseNames \cup Range(MatchedBaseNames) \cup Range(unmatched_names) :
              /\ Count(SubSeq(base_list, 1, i), b)
                    = Count(MatchedBaseNames, b) + Count(unmatched_names, b)
              /\ ~(InMatches(b) /\ InUnmatched(b))

C1_Witness ==
    /\ pc = "done"
    /\ ValidConfiguration
    /\ Len(base_list) = 2
    /\ Len(matched_results) = 1
    /\ Len(unmatched_names) = 1

(* C2: on return every base name is matched to a target with the highest
   score among the scored targets when that score clears the threshold as
   section 4.3 has it (it is greater than the initial best_score and at
   least the threshold), and is unmatched otherwise.  The code leaves a base
   name whose best target is the empty string unmatched. *)
C2_ArgMaxThenThreshold ==
    (pc = "done" /\ ValidConfiguration) =>
        \A n \in 1..Len(base_list) :
            IF RuleAccepts(n)
            THEN /\ InMatches(base_list[n])
                 /\ ~InUnmatched(base_list[n])
                 /\ MatchedNamesOf(base_list[n]) \subseteq ArgMaxNames(n)
            ELSE /\ InUnmatched(base_list[n])
                 /\ ~InMatches(base_list[n])

(* C3: a match record names the first target, in target_list order, that
   has the highest score among the scored targets; and inside the loop the
   accepted best is the first target scored so far that has the running
   highest score, so a later equal score never replaces it. *)
C3_FirstOfTiesWins ==
    /\ pc \in {"outer", "done"} =>
          \A n \in Processed :
              InMatches(base_list[n]) =>
                  MatchedNamesOf(base_list[n]) = {FirstBest(n)}
    /\ (pc = "inner" /\ best_match # None) =>
          LET first == FirstArgMax(i, ScoredFor(i))
          IN  /\ highest_score = ScoreOf(i, first)
              /\ best_match[1] = target_list[first]

\* two different targets tie for the highest score and the first is the match
C3_Witness ==
    /\ pc = "done"
    /\ \E n \in 1..Len(base_list) : \E k1, k2 \in ScoredFor(n) :
          /\ k1 < k2
          /\ target_list[k1] # target_list[k2]
          /\ ScoreOf(n, k1) = HighestScore(n)
          /\ ScoreOf(n, k2) = HighestScore(n)
          /\ MatchedNamesOf(base_list[n]) = {target_list[k1]}

(* C4: the threshold comparison is inclusive: a base name whose best scored
   target scores exactly the threshold (a score greater than the initial
   best_score of 0, as section 4.3 requires of any best) is in matches and
   not in unmatched.  The code leaves it unmatched when that target is the
   empty string. *)
C4_ThresholdInclusive ==
    (pc = "done" /\ ValidConfiguration) =>
        \A n \in 1..Len(base_list) :
            (/\ ScoredFor(n) # {}
             /\ HighestScore(n) = Threshold
             /\ RatGT(HighestScore(n), Zero)) =>
                (InMatches(base_list[n]) /\ ~InUnmatched(base_list[n]))

(* C5: every match record's pair scores at least the threshold, and a base
   name none of whose scored targets reaches the threshold is unmatched. *)
C5_NoSubThresholdMatch ==
    pc \in {"outer", "done"} =>
        /\ \A r \in 1..Len(matched_results) :
              RatGE(ScoreOfNames(matched_results[r].name,
                                 matched_results[r].matched_name), Threshold)
        /\ \A n \in Processed :
              (\A k \in ScoredFor(n) : ~RatGE(ScoreOf(n, k), Threshold)) =>
                  (InUnmatched(base_list[n]) /\ ~InMatches(base_list[n]))

\* a target below the threshold is scored first and is not the match; the
\* other base name has scored targets, none at the threshold, and is unmatched
C5_Witness ==
    /\ pc = "done"
    /\ \E n \in 1..Len(base_list) : \E k \in ScoredFor(n) :
          /\ RatGT(ScoreOf(n, k), Zero)
          /\ ~RatGE(ScoreOf(n, k), Threshold)
          /\ k < FirstArgMax(n, ScoredFor(n))
          /\ MatchedNamesOf(base_list[n]) = {FirstBest(n)}
    /\ \E n \in 1..Len(base_list) :
          /\ ScoredFor(n) # {}
          /\ ~RatGE(HighestScore(n), Threshold)
          /\ InUnmatched(base_list[n])

(* C6: every matched_name is an element of target_list as given. *)
C6_MatchedNameVerbatim ==
    \A r \in 1..Len(matched_results) :
        matched_results[r].matched_name \in Range(target_list)

\* in filename mode a target is matched whose stem differs from it
C6_Witness ==
    /\ pc = "done"
    /\ filename_mode
    /\ \E r \in 1..Len(matched_results) :
          /\ remove_extension(matched_results[r].matched_name)
                # matched_results[r].matched_name
          /\ matched_results[r].matched_name \in Range(target_list)

(* C7: with a library or a method outside the valid ones the call fails: it
   never returns a result, whatever the lists are, and it raises before any
   pair is scored. *)
C7_InvalidConfigurationFails ==
    ~ValidConfiguration =>
        /\ pc # "done"
        /\ scored = {}

(* C8: with a valid library and method the call never raises and never
   runs past the end of a list (so it always has a next step until it
   returns), an empty
   base_list gives two empty lists and an empty target_list gives no matches
   and unmatched equal to base_list. *)
C8_EmptyInputsAreNotErrors ==
    ValidConfiguration =>
        /\ pc # "raised"
        /\ pc = "outer" => i <= Len(base_list)
        /\ pc = "inner" => (i >= 1 /\ i <= Len(base_list) /\ j <= Len(target_list))
        /\ (pc = "done" /\ base_list = <<>>) =>
              (matched_results = <<>> /\ unmatched_names = <<>>)
        /\ (pc = "done" /\ target_list = <<>>) =>
              (matched_results = <<>> /\ unmatched_names = base_list)

\* two base names and no target: both are unmatched
C8_Witness ==
    /\ pc = "done"
    /\ ValidConfiguration
    /\ target_list = <<>>
    /\ Len(base_list) = 2
    /\ unmatched_names = base_list

(* C9: in filename mode a target with a character the "windows" rule set
   forbids is never scored and never the best, a target without one is
   scored for every base name, and the result returned is the result of the
   call on target_list without the invalid targets. *)
ValidTargets == SelectSeq(target_list, LAMBDA t : is_valid_filename(t, "windows"))

C9_InvalidTargetsSkipped ==
    (filename_mode /\ ValidConfiguration) =>
        /\ \A p \in scored : is_valid_filename(target_list[p[2]], "windows")
        /\ best_match # None => is_valid_filename(best_match[1], "windows")
        /\ \A n \in Processed : \A k \in 1..Len(target_list) :
              is_valid_filename(target_list[k], "windows") => <<n, k>> \in scored
        /\ pc = "done" =>
              <<matched_results, unmatched_names>>
                  = string_matching(base_list, ValidTargets, 1, <<>>, <<>>)

\* an invalid target that would have had the highest score comes first; a
\* valid one after it is the match
C9_Witness ==
    /\ pc = "done"
    /\ filename_mode
    /\ ValidConfiguration
    /\ \E n \in 1..Len(base_list) : \E k \in 1..Len(target_list) :
          /\ ~is_valid_filename(target_list[k], "windows")
          /\ ScoredFor(n) # {}
          /\ k < FirstArgMax(n, ScoredFor(n))
          /\ RatGT(ScoreOf(n, k), HighestScore(n))
          /\ MatchedNamesOf(base_list[n]) = {FirstBest(n)}

(* C10: is_valid_filename returns a boolean for every name; under 'windows'
   it is False exactly for the names with one of \ / : * ? " < > | and under
   'unix' exactly for the names with '/' or NUL; ("a/b.txt", unix) and
   ("a<b.txt", windows) are False, ("ok_name.txt", windows) is True. *)
C10_ForbiddenCharacters ==
    vf_result # None =>
        /\ vf_result[1] \in BOOLEAN
        /\ vf_os_type = "windows" =>
              vf_result[1] = ~(\E k \in 1..Len(vf_filename) :
                  vf_filename[k] \in {"\\", "/", ":", "*", "?", "\"", "<", ">", "|"})
        /\ vf_os_type = "unix" =>
              vf_result[1] = ~(\E k \in 1..Len(vf_filename) :
                  vf_filename[k] \in {"/", NUL})
        /\ (vf_filename = Str_a_slash_b_txt /\ vf_os_type = "unix") => ~vf_result[1]
        /\ (vf_filename = Str_a_lt_b_txt /\ vf_os_type = "windows") => ~vf_result[1]
        /\ (vf_filename = Str_ok_name_txt /\ vf_os_type = "windows") => vf_result[1]

\* a name with a backslash is rejected under 'windows'
C10_Witness ==
    /\ vf_os_type = "windows"
    /\ "\\" \in Chars(vf_filename)
    /\ vf_result = Some(FALSE)

----------------------------------------------------------------------------
(* C11: the string normalized for a target t of filename mode is t up to its
   last '.', that dot excluded, for every t the filter lets through, except
   that t is used whole when it has no '.' or its only '.' is its first
   character; names ending in '.', with several dots or starting with '.'
   included. *)
C11_StemIsNameBeforeLastDot ==
    (re_result # None /\ is_valid_filename(re_filename, "windows")) =>
        LET t == re_filename
            last == rfind(t, ".")
        IN  re_result[1] = IF last <= 0 THEN t ELSE Slice(t, 0, last)

(* C12: the normalized form of a base name is normalize_string of the whole
   base name, in filename mode too; without filename mode no target is
   filtered out (nothing is logged, every target of a processed base name is
   scored) and the string scored for a target is normalize_string of the
   whole target. *)
C12_StrippingOnlyForTargets ==
    /\ pc \in {"inner", "raised"} =>
          normalized_name = normalize_string(base_list[i], normalization_pattern)
    /\ ~filename_mode =>
          /\ log = <<>>
          /\ ValidConfiguration =>
                \A n \in Processed : \A k \in 1..Len(target_list) : <<n, k>> \in scored
          /\ (pc = "inner" /\ j >= 1) =>
                /\ <<i, j>> \in scored
                /\ normalized_target
                      = normalize_string(target_list[j], normalization_pattern)
          /\ pc = "raised" =>
                normalized_target
                    = normalize_string(target_list[j + 1], normalization_pattern)

\* without filename mode a base name with a dot is normalized whole, a target
\* with a forbidden character has been scored and the target with an
\* extension is scored with its extension
C12_Witness ==
    /\ ~filename_mode
    /\ pc = "inner"
    /\ base_list[i] = Str_A_b
    /\ normalized_name = <<"a", "b">>
    /\ target_list = <<Str_a_lt_b, Str_ab_x>>
    /\ scored = {<<i, 1>>, <<i, 2>>}
    /\ j = 2
    /\ normalized_target = <<"a", "b", "x">>

\* the lowercase letters and digits, written out
AlnumChars == {"a","b","c","d","e","f","g","h","i","j","k","l","m","n","o","p","q",
               "r","s","t","u","v","w","x","y","z",
               "0","1","2","3","4","5","6","7","8","9"}
\* the characters a character-class pattern allows
Allowed(filter_pattern) ==
    IF filter_pattern = DefaultPattern THEN AlnumChars ELSE AlnumChars \cup {".", ","}
\* the lowercase form of a character of NormChars
Lowercased(c) == IF c = "A" THEN "a" ELSE IF c = "É" THEN "é" ELSE c
\* the positions of s whose lowercased character the pattern allows
AllowedAt(s, filter_pattern) ==
    {k \in 1..Len(s) : Lowercased(s[k]) \in Allowed(filter_pattern)}

(* C13: for a character-class pattern normalize_string returns a string: the
   lowercased characters of s that the pattern allows, all of them, in the
   order they have in s, and so the empty string when none is allowed. *)
C13_KeepsAllowedLowercased ==
    (ns_result # None /\ ns_filter_pattern \in ClassPatterns) =>
        LET r == ns_result[1]
            kept == AllowedAt(ns_s, ns_filter_pattern)
        IN  /\ r \in Seq(NormChars)
            /\ Len(r) = Cardinality(kept)
            /\ \A k \in kept :
                  r[Cardinality({m \in kept : m <= k})] = Lowercased(ns_s[k])
            /\ kept = {} => r = <<>>

\* "A-.1" under the default pattern is "a1", and "-." is ""
C13_Witness ==
    /\ ns_filter_pattern = DefaultPattern
    /\ \/ ns_s = <<"A", "-", ".", "1">> /\ ns_result = Some(<<"a", "1">>)
       \/ ns_s = <<"-", ".">> /\ ns_result = Some(<<>>)

(* C14 as claimed: for every pattern the function accepts, normalizing the
   result again gives the result. *)
C14_Idempotent ==
    ns_again # None => ns_again = ns_result

(* C14 amended: for every pattern that is a negated character class
   repeated ([^...]+, as the default is), normalizing the result again gives
   the result. *)
C14_IdempotentForCharacterClass ==
    (ns_again # None /\ ns_filter_pattern \in ClassPatterns) => ns_again = ns_result

\* a string that the first call changes and the second call leaves alone
C14_Witness ==
    /\ ns_filter_pattern \in ClassPatterns
    /\ ns_again # None
    /\ ns_result # Some(ns_s)
    /\ ns_result[1] # <<>>
    /\ ns_again = ns_result

\* get_score was called with a valid library and method and the call is over
ScoreCallOver ==
    /\ gs_result # None
    /\ gs_library \in {"rapidfuzz", "thefuzz", "difflib"}
    /\ gs_match_method \in {"exact", "partial"}

(* C15: for each of the three libraries the 'exact' score of a non-empty
   string against itself is exactly 100. *)
C15_SelfScoreIs100 ==
    (/\ ScoreCallOver
     /\ gs_match_method = "exact"
     /\ gs_normalized_name # <<>>
     /\ gs_normalized_target = gs_normalized_name) =>
        gs_result = <<"returned", <<100, 1>>>>

\* difflib has scored "abab" against itself
C15_Witness ==
    /\ gs_library = "difflib"
    /\ gs_match_method = "exact"
    /\ gs_normalized_name = <<"a", "b", "a", "b">>
    /\ gs_normalized_target = <<"a", "b", "a", "b">>
    /\ gs_result = <<"returned", <<100, 1>>>>

(* C16: for every valid library and method and every pair of strings, empty
   ones included, get_score returns, what it returns is a number, and the
   number is at least 0 and at most 100. *)
C16_ScoreTotalAndInRange ==
    ScoreCallOver =>
        /\ gs_result[1] = "returned"
        /\ Len(gs_result[2]) \in {2, 3}
        /\ gs_result[2][1] \in Nat
        /\ gs_result[2][2] \in Nat \ {0}
        /\ Side(gs_result[2]) \in {-1, 0, 1}
        /\ RatGE(gs_result[2], Rat(0, 1))
        /\ RatGE(Rat(100, 1), gs_result[2])

\* an empty string has been scored in partial mode: 0 against "ab", and
\* 100 against the empty string
C16_Witness ==
    /\ gs_match_method = "partial"
    /\ gs_normalized_name = <<>>
    /\ \/ gs_normalized_target = <<"a", "b">> /\ gs_result = <<"returned", <<0, 1>>>>
       \/ gs_normalized_target = <<>> /\ gs_result = <<"returned", <<100, 1>>>>

\* word occurs in text as a contiguous substring
Occurs(word, text) ==
    \E k \in 0..(Len(text) - Len(word)) :
        \A m \in 1..Len(word) : text[k + m] = word[m]

(* C17: in 'partial' mode, for each of the three libraries, difflib
   included, a score of 100 is returned only when the shorter string occurs
   in the longer one as a contiguous substring. *)
C17_Partial100OnlyForSubstring ==
    (/\ ScoreCallOver
     /\ gs_match_method = "partial"
     /\ gs_result = <<"returned", <<100, 1>>>>) =>
        IF Len(gs_normalized_name) <= Len(gs_normalized_target)
        THEN Occurs(gs_normalized_name, gs_normalized_target)
        ELSE Occurs(gs_normalized_target, gs_normalized_name)

\* the elements of seq at the positions S, in the order of seq
Restrict(seq, S) ==
    [r \in 1..Cardinality(S) |->
        seq[CHOOSE k \in S : Cardinality({m \in S : m <= k}) = r]]

(* C18: string_matching does not sort: at every point of the call the base
   names of matches and the names of unmatched are two subsequences of
   base_list, in base_list order, that together are the base names processed
   so far. *)
C18_ResultsInBaseOrder ==
    \E M \in SUBSET Processed :
        /\ MatchedBaseNames = Restrict(base_list, M)
        /\ unmatched_names = Restrict(base_list, Processed \ M)

\* two different base names are matched, to different targets, and the
\* base name between them is not: both lists are in base_list order, which
\* is neither the order of the targets nor that of a sort by name
C18_Witness ==
    /\ pc = "done"
    /\ base_list = <<Str_b, Str_dash, Str_A_b>>
    /\ target_list = <<Str_AB, Str_b>>
    /\ matched_results = <<[name |-> Str_b, matched_name |-> Str_b],
                           [name |-> Str_A_b, matched_name |-> Str_AB]>>
    /\ unmatched_names = <<Str_dash>>

\* the targets the pass of worker w has gone through
TargetsSeenBy(w) == SubSeq(target_list, 1, workers[w].j)

(* C20: with the base names processed concurrently, in any interleaving of
   the steps of their passes, each pass going through the targets in order
   and the results collected in base_list order: the best match a pass holds
   is the one the inner loop gives for that base name alone on the targets
   it has gone through, whatever the other passes have done; and the call
   returns the two lists of the sequential loop, and raises when the
   sequential loop raises. *)
C20_BaseNamesIndependent ==
    /\ \A w \in DOMAIN workers :
          workers[w].pc \in {"inner", "ended"} =>
              workers[w].best_match =
                  best_over(normalize_string(base_list[w], normalization_pattern),
                            TargetsSeenBy(w), 1, None, Rat(0, 1))
    /\ pc = "done" =>
          /\ ~string_matching_raises(base_list, target_list)
          /\ <<matched_results, unmatched_names>>
                = string_matching(base_list, target_list, 1, <<>>, <<>>)
    /\ pc = "raised" => string_matching_raises(base_list, target_list)

\* the call has returned after passes that interleaved: a step of the pass
\* of each of two different base names was taken while the other pass was
\* between two targets; one base name is matched and the other is not
C20_Witness ==
    /\ pc = "done"
    /\ Len(base_list) = 2
    /\ base_list[1] # base_list[2]
    /\ workers[1].interleaved
    /\ workers[2].interleaved
    /\ ScoredFor(1) = {1, 2}
    /\ ScoredFor(2) = {1, 2}
    /\ Len(matched_results) = 1
    /\ Len(unmatched_names) = 1

\* match_names_to_filenames has returned its two lists
NamesReturned == mn_result # None /\ mn_result[1] = "returned"
\* what string_matching returned to it, before any sort
FoundByStringMatching ==
    string_matching(stripped_lines(mn_name_lines), stripped_lines(mn_filename_lines),
                    1, <<>>, <<>>)
\* the characters of the names, in code point order (uppercase before lowercase)
CodePointOrder == <<" ", "-", ".", "A", "B", "a", "b">>
Rank(c) == CHOOSE k \in 1..Len(CodePointOrder) : CodePointOrder[k] = c
\* a comes before b: at the first position where they differ a has the
\* character of lower code point, or a ends there
LexBefore(a, b) ==
    \E k \in 1..Len(b) :
        /\ \A m \in 1..(k - 1) : m <= Len(a) /\ a[m] = b[m]
        /\ k > Len(a) \/ (k <= Len(a) /\ Rank(a[k]) < Rank(b[k]))

(* C19: with sort requested the matches returned are in ascending order of
   the original base_name, compared character by character by code point
   (so "B" comes before "a"), and they are the matches of string_matching
   rearranged with records of equal base_name kept in their order. *)
C19_SortedByOriginalName ==
    (NamesReturned /\ mn_sort) =>
        LET sorted == mn_result[2][1]
            found == FoundByStringMatching[1]
        IN  /\ \A a, b \in 1..Len(sorted) :
                  a < b => ~LexBefore(sorted[b].name, sorted[a].name)
            /\ Len(sorted) = Len(found)
            /\ \E p \in Permutations(1..Len(found)) :
                  /\ \A k \in 1..Len(found) : sorted[k] = found[p[k]]
                  /\ \A a, b \in 1..Len(found) :
                        (a < b /\ sorted[a].name = sorted[b].name) => p[a] < p[b]

\* the names "a" and "B", matched in that order, are returned as "B", "a"
C19_Witness ==
    /\ NamesReturned
    /\ mn_sort
    /\ stripped_lines(mn_name_lines) = <<<<"a">>, <<"B">>>>
    /\ Len(mn_result[2][1]) = 2
    /\ mn_result[2][1][1].name = <<"B">>
    /\ mn_result[2][1][2].name = <<"a">>

(* C21: string_matching hands nothing to the logger: at every point of every
   call, runs in filename mode over invalid target names included, the log
   is as it was when the call began. *)
C21_NoDiagnosticOutput ==
    log = <<>>

\* "supermariobros", "supermariobrosusa" and "supermariobros2usa"
Str_supermariobros ==
    <<"s", "u", "p", "e", "r", "m", "a", "r", "i", "o", "b", "r", "o", "s">>
Str_supermariobrosusa ==
    <<"s", "u", "p", "e", "r", "m", "a", "r", "i", "o", "b", "r", "o", "s", "u", "s", "a">>
Str_supermariobros2usa ==
    <<"s", "u", "p", "e", "r", "m", "a", "r", "i", "o", "b", "r", "o", "s", "2", "u", "s", "a">>
\* the call of the scenario, whatever the threshold
ScenarioCall ==
    /\ base_list = <<Str_super_mario_bros>>
    /\ target_list = <<Str_Super_Mario_Bros_USA_nes, Str_Super_Mario_Bros_2_USA_nes>>
    /\ library = "rapidfuzz"
    /\ match_method = "exact"
    /\ normalization_pattern = DefaultPattern
    /\ filename_mode

(* C22: on the scenario (base "super mario bros", targets
   "Super Mario Bros. (USA).nes" and "Super Mario Bros 2 (USA).nes",
   rapidfuzz, exact, default pattern, filename mode) the normalized base is
   "supermariobros", the normalized targets are "supermariobrosusa" and
   "supermariobros2usa", the first target scores higher (2800/31 against
   175/2) and is the match at threshold 80; at a threshold its score does
   not reach the base name is unmatched. *)
C22_ScenarioSelectsFirstTarget ==
    ScenarioCall =>
        /\ pc = "inner" => normalized_name = Str_supermariobros
        /\ (pc = "inner" /\ j = 1) =>
              /\ normalized_target = Str_supermariobrosusa
              /\ highest_score = <<2800, 31>>
        /\ (pc = "inner" /\ j = 2) =>
              /\ normalized_target = Str_supermariobros2usa
              /\ highest_score = <<2800, 31>>
              /\ RatGT(highest_score, <<175, 2>>)
        /\ (pc = "done" /\ similarity_threshold = 80) =>
              /\ matched_results = <<[name |-> Str_super_mario_bros,
                                      matched_name |-> Str_Super_Mario_Bros_USA_nes]>>
              /\ unmatched_names = <<>>
        /\ (pc = "done" /\ similarity_threshold = 100) =>
              /\ matched_results = <<>>
              /\ unmatched_names = <<Str_super_mario_bros>>

\* the scenario has returned at threshold 80 with its one match
C22_Witness ==
    /\ ScenarioCall
    /\ similarity_threshold = 80
    /\ pc = "done"
    /\ scored = {<<1, 1>>, <<1, 2>>}
    /\ Len(matched_results) = 1
    /\ matched_results[1].matched_name = Str_Super_Mario_Bros_USA_nes

----------------------------------------------------------------------------
\* the timestamps recorded in the window of length interval_seconds that
\* starts at t, both ends included
GrantedIn(t) ==
    {k \in 1..Len(rl_granted) :
        t <= rl_granted[k] /\ rl_granted[k] <= t + rl_interval_seconds}
NonDecreasing(seq) == \A k \in 1..(Len(seq) - 1) : seq[k] <= seq[k + 1]

(* C23: RateLimiter enforces its limit over any sequence of
   wait_for_request_slot calls: every window of length interval_seconds
   holds at most max_requests recorded timestamps, and when a call has
   returned the timestamps queue holds at most max_requests entries, in
   non-decreasing order. *)
C23_LimitEnforced ==
    /\ \A t \in 0..MaxTime : Cardinality(GrantedIn(t)) <= rl_max_requests
    /\ rl_pc = "idle" =>
        /\ Len(rl_timestamps) <= rl_max_requests
        /\ NonDecreasing(rl_timestamps)

\* a third call had to sleep behind two granted slots and has returned; the
\* queue is full again
C23_Witness ==
    /\ rl_pc = "idle"
    /\ rl_max_requests = 2
    /\ Len(rl_granted) >= 3
    /\ rl_call.slept
    /\ Len(rl_timestamps) = rl_max_requests
    /\ \E t \in 0..MaxTime : Cardinality(GrantedIn(t)) = rl_max_requests

\* the timestamps the call found on entry that lie within the interval
WithinOnEntry ==
    {k \in 1..Len(rl_call.timestamps) :
        rl_call.time - rl_call.timestamps[k] <= rl_interval_seconds}
\* the call has returned
Returned == rl_pc = "idle" /\ rl_granted # <<>>
\* the call is inside wait_for_request_slot
Running == rl_pc \in {"waiting", "sleeping"}
\* the sleep is over before the clock of the model stops
BeforeClockStops == rl_wake < MaxTime

\* what holds of a call in every state
C24_OneTimestampNoSleep ==
    /\ Running => Len(rl_granted) = rl_call.granted
    /\ Returned =>
        /\ Len(rl_granted) = rl_call.granted + 1
        /\ rl_timestamps # <<>>
        /\ rl_timestamps[Len(rl_timestamps)] = rl_granted[Len(rl_granted)]
        /\ rl_granted[Len(rl_granted)] = rl_current_time
    /\ Cardinality(WithinOnEntry) < rl_max_requests => ~rl_call.slept

(* C24: wait_for_request_slot blocks until a slot is available and then
   returns: while the clock keeps advancing every call returns, it records
   exactly one new timestamp (the time it last read), and it does not sleep
   when fewer than max_requests of the timestamps it finds lie within the
   current interval. *)
C24_BlocksThenReturns ==
    /\ []C24_OneTimestampNoSleep
    /\ [](rl_pc = "sleeping" => rl_call.slept /\ Len(rl_timestamps) >= rl_max_requests)
    /\ (rl_pc = "waiting") ~> (rl_pc \in {"sleeping", "idle"})
    /\ (rl_pc = "sleeping" /\ BeforeClockStops) ~> (rl_pc = "idle")

\* a call that found the queue full slept and returned with its timestamp,
\* and the call before it returned without sleeping
C24_Witness ==
    /\ Returned
    /\ rl_call.slept
    /\ Cardinality(WithinOnEntry) >= rl_max_requests
    /\ rl_call.time + rl_interval_seconds < MaxTime
    /\ rl_granted[Len(rl_granted)] > rl_call.time

----------------------------------------------------------------------------
Supported == lower(cc_checksum_type) \in {Str_crc, Str_md5, Str_sha1}

(* C25: calculate_checksum raises ValueError whenever checksum_type is not
   'crc', 'md5' or 'sha1' in any letter case (and the file can be opened), it
   raises FileNotFoundError when the file does not exist, and it returns None
   only for other errors. *)
C25_ErrorsOfCalculateChecksum ==
    cc_result # None =>
        /\ (~Supported /\ cc_file[1] = "file") =>
                (cc_result[1] = "raised" /\ cc_result[2] = "ValueError")
        /\ cc_file = NoFile =>
                (cc_result[1] = "raised" /\ cc_result[2] = "FileNotFoundError")
        /\ (cc_result[1] = "returned" /\ cc_result[2] = None) =>
                (Supported /\ cc_file # NoFile)

----------------------------------------------------------------------------
\* the inner loop for base_list[i] is running or over
InLoop == pc = "inner" \/ (pc \in {"outer", "done"} /\ i >= 1)
\* the scored targets before position k
ScoredBefore(k) == {m \in ScoredFor(i) : m < k}
\* the score of position k is higher than every score before it, and positive
NewMaximum(k) ==
    /\ RatGT(ScoreOf(i, k), Zero)
    /\ \A m \in ScoredBefore(k) : RatGT(ScoreOf(i, k), ScoreOf(i, m))

(* C26: within the inner loop for one base name an accepted best candidate
   is never cleared, and a step of the loop replaces it only by the target
   it has just scored, whose score is higher than every score before it and
   at least the threshold. *)
C26_AcceptedBestIsKept ==
    [][(pc = "inner" /\ best_match # None) =>
            /\ best_match' # None
            /\ best_match' # best_match =>
                    /\ pc' = "inner" /\ i' = i /\ j' = j + 1
                    /\ <<i, j'>> \in scored'
                    /\ best_match' = Some(target_list[j'])
                    /\ RatGT(ScoreOf(i, j'), highest_score)
                    /\ \A m \in ScoredFor(i) : RatGT(ScoreOf(i, j'), ScoreOf(i, m))
                    /\ RatGE(ScoreOf(i, j'), Threshold)]_vars

\* the second target has replaced an accepted first one
C26_Witness ==
    /\ pc = "inner" /\ j = 2
    /\ ScoredFor(i) = {1, 2}
    /\ RatGE(ScoreOf(i, 1), Threshold) /\ RatGT(ScoreOf(i, 1), Zero)
    /\ RatGT(ScoreOf(i, 2), ScoreOf(i, 1))
    /\ target_list[1] # target_list[2]
    /\ best_match = Some(target_list[2])

(* C28: after any prefix of the target list highest_score is the maximum of
   0 and the scores of the scored targets, best_match is set exactly when
   highest_score is positive and at least the threshold, and it is then the
   first scored target whose score is highest_score. *)
C28_RunningBestInvariant ==
    InLoop =>
        /\ highest_score = (IF ScoredFor(i) = {} THEN Zero ELSE HighestScore(i))
        /\ best_match # None <=>
                (RatGT(highest_score, Zero) /\ RatGE(highest_score, Threshold))
        /\ best_match # None =>
                /\ best_match = Some(FirstBest(i))
                /\ ScoreOf(i, FirstArgMax(i, ScoredFor(i))) = highest_score

\* two targets with the same score at the threshold or above are scored and
\* the first is the best
C28_Witness ==
    /\ pc = "inner" /\ j = 2
    /\ ScoredFor(i) = {1, 2}
    /\ ScoreOf(i, 1) = ScoreOf(i, 2)
    /\ target_list[1] # target_list[2]
    /\ RatGE(highest_score, Threshold)
    /\ best_match = Some(target_list[1])

----------------------------------------------------------------------------
(* C29: every matched_name of the result is a non-empty string: a base name
   whose best target is the empty string goes to unmatched and gets no
   match record, because `if best_match:` tests truthiness. *)
C29_MatchedNameNonEmpty ==
    /\ \A r \in 1..Len(matched_results) : matched_results[r].matched_name # <<>>
    /\ (pc = "outer" /\ i >= 1 /\ best_match = Some(<<>>)) =>
            /\ unmatched_names # <<>>
            /\ unmatched_names[Len(unmatched_names)] = base_list[i]
            /\ ~InMatches(base_list[i])

\* the inner loop of a base name has ended with the empty string as the
\* best target, its score at the threshold or above
C29_Witness ==
    /\ pc = "outer" /\ i >= 1
    /\ best_match = Some(<<>>)
    /\ RatGE(highest_score, Threshold) /\ RatGT(highest_score, Zero)
    /\ \E k \in ScoredFor(i) : target_list[k] = <<>>
    /\ InUnmatched(base_list[i])

----------------------------------------------------------------------------
\* seq is names with some of its entries left out
IsSubsequenceOf(seq, names) ==
    \E keep \in SUBSET (1..Len(names)) :
        /\ Cardinality(keep) = Len(seq)
        /\ \A k \in 1..Len(seq) :
              seq[k] = names[CHOOSE m \in keep :
                                Cardinality({q \in keep : q < m}) = k - 1]

(* C30: the sort step of match_names_to_filenames only permutes matches: the
   matches returned hold the records string_matching returned, each as often,
   so every base_name keeps its matched_name; without sort they are in the
   order string_matching returned them; unmatched is what string_matching
   returned, in the order of the names file, with and without sort. *)
C30_SortOnlyPermutes ==
    NamesReturned =>
        LET returned == mn_result[2][1]
            found == FoundByStringMatching
        IN  /\ Len(returned) = Len(found[1])
            /\ \A x \in Range(found[1]) \cup Range(returned) :
                  Count(returned, x) = Count(found[1], x)
            /\ \A r \in 1..Len(returned) :
                  \E q \in 1..Len(found[1]) :
                      /\ found[1][q].name = returned[r].name
                      /\ found[1][q].matched_name = returned[r].matched_name
            /\ ~mn_sort => returned = found[1]
            /\ mn_result[2][2] = found[2]
            /\ IsSubsequenceOf(mn_result[2][2], stripped_lines(mn_name_lines))

\* the sort has exchanged the two match records string_matching returned
C30_Witness ==
    /\ NamesReturned
    /\ mn_sort
    /\ Len(FoundByStringMatching[1]) = 2
    /\ mn_result[2][1] # FoundByStringMatching[1]
    /\ mn_result[2][1][1] = FoundByStringMatching[1][2]
    /\ mn_result[2][1][2] = FoundByStringMatching[1][1]

====
